---- MODULE Spec2Model ----
(***************************************************************************)
(* Model of the poptrack-api listing pipeline: request query parsing       *)
(* (getPaginationParams), predicate construction (PropertyQueryBuilder and *)
(* the getProperties handler), and the fork-join page read / count of      *)
(* paginate, run against a Property collection that archive requests may   *)
(* change while a listing is in flight.                                    *)
(***************************************************************************)
EXTENDS Integers, Sequences, FiniteSets, TLC

(***************************************************************************)
(* JavaScript numbers.  A number is NaN, +/-Infinity or a finite value     *)
(* kept as a reduced fraction n/d (d > 0), which is exact for every value  *)
(* the listing pipeline computes from the inputs below.  Negative zero is  *)
(* not distinguished from zero: no comparison in the code tells them apart.*)
(***************************************************************************)
RECURSIVE Gcd(_, _)
Gcd(a, b) == IF b = 0 THEN a ELSE Gcd(b, a % b)

Abs(x) == IF x < 0 THEN -x ELSE x

Fin(n, d) ==
    LET g == Gcd(Abs(n), d)
    IN  [k |-> "fin", n |-> n \div g, d |-> d \div g]

Int2Num(i) == [k |-> "fin", n |-> i, d |-> 1]
NaN == [k |-> "nan", n |-> 0, d |-> 1]
PosInf == [k |-> "inf", n |-> 1, d |-> 1]
NegInf == [k |-> "inf", n |-> -1, d |-> 1]

Sign(x) == IF x.n > 0 THEN 1 ELSE IF x.n < 0 THEN -1 ELSE 0
InfOf(s) == IF s > 0 THEN PosInf ELSE NegInf

JsIsNaN(x) == x.k = "nan"
JsIsFinite(x) == x.k = "fin"
JsIsInteger(x) == x.k = "fin" /\ x.d = 1

JsNeg(x) ==
    CASE x.k = "nan" -> NaN
      [] x.k = "inf" -> InfOf(-x.n)
      [] OTHER -> Fin(-x.n, x.d)

\* a < b; every comparison with NaN is false
JsLt(a, b) ==
    CASE a.k = "nan" \/ b.k = "nan" -> FALSE
      [] a.k = "inf" /\ b.k = "inf" -> a.n < b.n
      [] a.k = "inf" -> a.n < 0
      [] b.k = "inf" -> b.n > 0
      [] OTHER -> a.n * b.d < b.n * a.d

JsGt(a, b) == JsLt(b, a)
JsLe(a, b) == ~JsIsNaN(a) /\ ~JsIsNaN(b) /\ ~JsLt(b, a)
JsGe(a, b) == JsLe(b, a)

JsAdd(a, b) ==
    CASE a.k = "nan" \/ b.k = "nan" -> NaN
      [] a.k = "inf" /\ b.k = "inf" -> IF a.n = b.n THEN a ELSE NaN
      [] a.k = "inf" -> a
      [] b.k = "inf" -> b
      [] OTHER -> Fin(a.n * b.d + b.n * a.d, a.d * b.d)

JsSub(a, b) == JsAdd(a, JsNeg(b))

JsMul(a, b) ==
    CASE a.k = "nan" \/ b.k = "nan" -> NaN
      [] a.k = "inf" \/ b.k = "inf" ->
            IF Sign(a) * Sign(b) = 0 THEN NaN ELSE InfOf(Sign(a) * Sign(b))
      [] OTHER -> Fin(a.n * b.n, a.d * b.d)

\* a / b; the sign of a zero divisor is taken as positive
JsDiv(a, b) ==
    CASE a.k = "nan" \/ b.k = "nan" -> NaN
      [] a.k = "inf" /\ b.k = "inf" -> NaN
      [] a.k = "inf" -> InfOf(a.n * (IF Sign(b) < 0 THEN -1 ELSE 1))
      [] b.k = "inf" -> Int2Num(0)
      [] b.n = 0 -> IF a.n = 0 THEN NaN ELSE InfOf(Sign(a))
      [] OTHER -> IF b.n > 0 THEN Fin(a.n * b.d, a.d * b.n)
                             ELSE Fin(-(a.n * b.d), a.d * (-b.n))

\* Math.floor, used by a mutant of the page count only
JsFloor(x) == IF x.k = "fin" THEN Int2Num(x.n \div x.d) ELSE x

JsCeil(x) == IF x.k = "fin" THEN Int2Num(-((-x.n) \div x.d)) ELSE x

\* truthiness of a number: NaN and 0 are falsy
JsTruthyNum(x) == ~(x.k = "nan") /\ ~(x.k = "fin" /\ x.n = 0)

(***************************************************************************)
(* Query-string values.  Express hands every query parameter to the        *)
(* handler as a string or as undefined.  A string is kept as its sequence  *)
(* of characters so that numeric coercion is computed from the text.       *)
(***************************************************************************)
Undefined == [def |-> FALSE, s |-> <<>>]
Str(chars) == [def |-> TRUE, s |-> chars]

\* truthiness of a query value: undefined and "" are falsy
Truthy(v) == v.def /\ v.s # <<>>

DigitChars == {"0", "1", "2", "3", "4", "5", "6", "7", "8", "9"}

DigitVal(c) ==
    CASE c = "0" -> 0 [] c = "1" -> 1 [] c = "2" -> 2 [] c = "3" -> 3
      [] c = "4" -> 4 [] c = "5" -> 5 [] c = "6" -> 6 [] c = "7" -> 7
      [] c = "8" -> 8 [] c = "9" -> 9

AllDigits(s) == \A i \in 1..Len(s) : s[i] \in DigitChars

RECURSIVE DigitsValue(_)
DigitsValue(s) ==
    IF s = <<>> THEN 0
    ELSE 10 * DigitsValue(SubSeq(s, 1, Len(s) - 1)) + DigitVal(s[Len(s)])

RECURSIVE Pow10(_)
Pow10(e) == IF e = 0 THEN 1 ELSE 10 * Pow10(e - 1)

InfinityChars == <<"I", "n", "f", "i", "n", "i", "t", "y">>

\* an unsigned StrNumericLiteral: Infinity, or decimal digits with an
\* optional fraction; anything else is NaN
ParseUnsigned(s) ==
    IF s = InfinityChars THEN PosInf
    ELSE LET dots == {i \in 1..Len(s) : s[i] = "."}
             dot == IF dots = {} THEN Len(s) + 1
                    ELSE CHOOSE i \in dots : \A j \in dots : i <= j
             ip == SubSeq(s, 1, dot - 1)
             fp == SubSeq(s, dot + 1, Len(s))
         IN  IF AllDigits(ip) /\ AllDigits(fp) /\ Len(ip) + Len(fp) > 0
             THEN Fin(DigitsValue(ip) * Pow10(Len(fp)) + DigitsValue(fp),
                      Pow10(Len(fp)))
             ELSE NaN

\* ToNumber on a string (unary plus, Number(...)): "" is 0, a leading sign
\* is honoured, text that is no numeric literal is NaN
StringToNumber(s) ==
    IF s = <<>> THEN Int2Num(0)
    ELSE IF s[1] = "-" THEN JsNeg(ParseUnsigned(Tail(s)))
    ELSE IF s[1] = "+" THEN ParseUnsigned(Tail(s))
    ELSE ParseUnsigned(s)

(***************************************************************************)
(* getPaginationParams: the destructuring default applies to undefined     *)
(* only; the value is then coerced with unary plus and replaced by the     *)
(* default when it is NaN or below 1.                                      *)
(***************************************************************************)
DefaultPage == 1
DefaultLimit == 10

\* the maxLimit the listing handlers configure
MaxLimit == 100

CoercePageOrLimit(raw, dflt) ==
    IF raw.def THEN StringToNumber(raw.s) ELSE Int2Num(dflt)

\* mutant: only NaN is replaced, the "< 1" test is lost
ValidOrDefault_NaNOnly(num, dflt) ==
    IF JsIsNaN(num) THEN Int2Num(dflt) ELSE num

ValidOrDefault(num, dflt) ==
    IF JsIsNaN(num) \/ JsLt(num, Int2Num(1)) THEN Int2Num(dflt) ELSE num

\* mutant: an invalid limit falls back to the page default
getPaginationParams_LimitDefaultOne(query) ==
    LET pageNum == CoercePageOrLimit(query.page, DefaultPage)
        limitNum == CoercePageOrLimit(query.limit, DefaultLimit)
    IN  [page |-> ValidOrDefault(pageNum, DefaultPage),
         limit |-> ValidOrDefault(limitNum, DefaultPage)]

getPaginationParams(query) ==
    LET pageNum == CoercePageOrLimit(query.page, DefaultPage)
        limitNum == CoercePageOrLimit(query.limit, DefaultLimit)
    IN  [page |-> ValidOrDefault(pageNum, DefaultPage),
         limit |-> ValidOrDefault(limitNum, DefaultLimit)]

(***************************************************************************)
(* Non-numeric query values (type, city, archived) are kept as text.       *)
(***************************************************************************)
UndefinedText == [def |-> FALSE, t |-> ""]
Text(t) == [def |-> TRUE, t |-> t]
TruthyText(v) == v.def /\ v.t # ""

\* the amenities parameter: undefined, or one or more strings
UndefinedList == [def |-> FALSE, items |-> <<>>]
List(items) == [def |-> TRUE, items |-> items]

\* an optional number handed to the builder
NoNum == [def |-> FALSE, num |-> NaN]
SomeNum(x) == [def |-> TRUE, num |-> x]
TruthyOptNum(o) == o.def /\ JsTruthyNum(o.num)

(***************************************************************************)
(* PropertyQueryBuilder: the accumulated filter object.  Every key the     *)
(* builder or the handler can set is a field that is either off or holds   *)
(* its condition.                                                          *)
(***************************************************************************)
OffText == [on |-> FALSE, v |-> ""]
OffNum == [on |-> FALSE, v |-> NaN]
OffBool == [on |-> FALSE, v |-> FALSE]
OffPrice == [on |-> FALSE, gte |-> OffNum, lte |-> OffNum]
OffAll == [on |-> FALSE, all |-> {}]
OffOr == [on |-> FALSE, group |-> <<>>]
OffSearch == [on |-> FALSE, search |-> ""]
OffNear == [on |-> FALSE, lng |-> NaN, lat |-> NaN, maxDistance |-> NaN]

\* private query: any = {}
EmptyQuery ==
    [type |-> OffText, city |-> OffText, price |-> OffPrice,
     bedrooms |-> OffNum, bathrooms |-> OffNum, amenities |-> OffAll,
     or |-> OffOr, text |-> OffSearch, near |-> OffNear,
     archived |-> OffBool]

\* the options a builder is constructed with: defaults overridden by the
\* keys the caller gives
DefaultOptions ==
    [maxLimit |-> MaxLimit, defaultLimit |-> DefaultLimit,
     enableTextSearch |-> FALSE, enableGeospatial |-> FALSE]

NewBuilderOptions(given) ==
    [k \in DOMAIN DefaultOptions |->
        IF k \in DOMAIN given THEN given[k] ELSE DefaultOptions[k]]

\* a filter method that treats an empty value as "remove the criterion"
addTypeFilter_ClearsOnEmpty(q, type) ==
    IF TruthyText(type) THEN [q EXCEPT !.type = [on |-> TRUE, v |-> type.t]]
    ELSE [q EXCEPT !.type = OffText]

addTypeFilter(q, type) ==
    IF TruthyText(type) THEN [q EXCEPT !.type = [on |-> TRUE, v |-> type.t]]
    ELSE q

addCityFilter(q, city) ==
    IF TruthyText(city) THEN [q EXCEPT !.city = [on |-> TRUE, v |-> city.t]]
    ELSE q

\* one entry of the $or array: { field: { $regex, $options } }; the regular
\* expression is the term itself, or the term between ^ and $
RegexCond(field, anchored, term) ==
    [field |-> field, anchored |-> anchored, term |-> term, options |-> "i"]

\* a location filter that starts the query over with its OR group
addLocationFilter_ReplacesQuery(q, location) ==
    IF TruthyText(location)
    THEN [EmptyQuery EXCEPT !.or =
            [on |-> TRUE,
             group |-> <<RegexCond("location.city", TRUE, location.t),
                         RegexCond("location.city", FALSE, location.t),
                         RegexCond("location.address", FALSE, location.t)>>]]
    ELSE q

\* a location filter that searches the city only
addLocationFilter_CityOnly(q, location) ==
    IF TruthyText(location)
    THEN [q EXCEPT !.or =
            [on |-> TRUE,
             group |-> <<RegexCond("location.city", TRUE, location.t),
                         RegexCond("location.city", FALSE, location.t)>>]]
    ELSE q

addLocationFilter(q, location) ==
    IF TruthyText(location)
    THEN [q EXCEPT !.or =
            [on |-> TRUE,
             group |-> <<RegexCond("location.city", TRUE, location.t),
                         RegexCond("location.city", FALSE, location.t),
                         RegexCond("location.address", FALSE, location.t)>>]]
    ELSE q

\* a price filter that forgets the upper side
addPriceFilter_MinOnly(q, minPrice, maxPrice) ==
    IF TruthyOptNum(minPrice) \/ TruthyOptNum(maxPrice)
    THEN [q EXCEPT !.price =
            [on |-> TRUE,
             gte |-> IF TruthyOptNum(minPrice)
                     THEN [on |-> TRUE, v |-> minPrice.num] ELSE OffNum,
             lte |-> OffNum]]
    ELSE q

addPriceFilter(q, minPrice, maxPrice) ==
    IF TruthyOptNum(minPrice) \/ TruthyOptNum(maxPrice)
    THEN [q EXCEPT !.price =
            [on |-> TRUE,
             gte |-> IF TruthyOptNum(minPrice)
                     THEN [on |-> TRUE, v |-> minPrice.num] ELSE OffNum,
             lte |-> IF TruthyOptNum(maxPrice)
                     THEN [on |-> TRUE, v |-> maxPrice.num] ELSE OffNum]]
    ELSE q

\* a bedroom filter that skips NaN only, so that 0 is a criterion
addBedroomFilter_KeepsZero(q, bedrooms) ==
    IF ~JsIsNaN(bedrooms)
    THEN [q EXCEPT !.bedrooms = [on |-> TRUE, v |-> bedrooms]] ELSE q

addBedroomFilter(q, bedrooms) ==
    IF JsTruthyNum(bedrooms)
    THEN [q EXCEPT !.bedrooms = [on |-> TRUE, v |-> bedrooms]] ELSE q

addBathroomFilter(q, bathrooms) ==
    IF JsTruthyNum(bathrooms)
    THEN [q EXCEPT !.bathrooms = [on |-> TRUE, v |-> bathrooms]] ELSE q

\* an amenities filter that requires the first value only
addAmenitiesFilter_FirstOnly(q, amenities) ==
    IF amenities.def /\ Len(amenities.items) > 0
    THEN [q EXCEPT !.amenities = [on |-> TRUE, all |-> {amenities.items[1]}]]
    ELSE q

addAmenitiesFilter(q, amenities) ==
    IF amenities.def /\ Len(amenities.items) > 0
    THEN [q EXCEPT !.amenities =
            [on |-> TRUE,
             all |-> {amenities.items[i] : i \in 1..Len(amenities.items)}]]
    ELSE q

\* a text search that does not look at the enableTextSearch option
addTextSearch_IgnoresOption(q, options, searchTerm) ==
    IF TruthyText(searchTerm)
    THEN [q EXCEPT !.text = [on |-> TRUE, search |-> searchTerm.t]]
    ELSE q

addTextSearch(q, options, searchTerm) ==
    IF TruthyText(searchTerm) /\ options.enableTextSearch
    THEN [q EXCEPT !.text = [on |-> TRUE, search |-> searchTerm.t]]
    ELSE q

addGeospatialFilter(q, options, lat, lng, radius) ==
    IF /\ JsTruthyNum(lat) /\ JsTruthyNum(lng) /\ JsTruthyNum(radius)
       /\ options.enableGeospatial
    THEN [q EXCEPT !.near = [on |-> TRUE, lng |-> lng, lat |-> lat,
                             maxDistance |-> radius]]
    ELSE q

\* the archived branch of getProperties, applied to the built query
\* an archived branch with no default for an absent parameter
ArchivedFilter_NoDefault(q, archived) ==
    IF ~archived.def THEN q
    ELSE IF archived.t = "true"
         THEN [q EXCEPT !.archived = [on |-> TRUE, v |-> TRUE]]
    ELSE IF archived.t = "false"
         THEN [q EXCEPT !.archived = [on |-> TRUE, v |-> FALSE]]
    ELSE q

\* an archived branch that treats every other value as "false"
ArchivedFilter_OthersFalse(q, archived) ==
    IF ~archived.def THEN [q EXCEPT !.archived = [on |-> TRUE, v |-> FALSE]]
    ELSE IF archived.t = "true"
         THEN [q EXCEPT !.archived = [on |-> TRUE, v |-> TRUE]]
    ELSE [q EXCEPT !.archived = [on |-> TRUE, v |-> FALSE]]

ArchivedFilter(q, archived) ==
    IF ~archived.def THEN [q EXCEPT !.archived = [on |-> TRUE, v |-> FALSE]]
    ELSE IF archived.t = "true"
         THEN [q EXCEPT !.archived = [on |-> TRUE, v |-> TRUE]]
    ELSE IF archived.t = "false"
         THEN [q EXCEPT !.archived = [on |-> TRUE, v |-> FALSE]]
    ELSE q

\* getProperties up to the call of createPaginatedResponse: the predicate
\* built from the request's query parameters (searchTerm is never supplied
\* by the requests of this model)
BuildListingQuery(rq) ==
    LET q1 == IF TruthyText(rq.type) THEN addTypeFilter(EmptyQuery, rq.type)
              ELSE EmptyQuery
        q2 == IF TruthyText(rq.city) THEN addCityFilter(q1, rq.city) ELSE q1
        q3 == IF Truthy(rq.minPrice) \/ Truthy(rq.maxPrice)
              THEN addPriceFilter(q2,
                     IF Truthy(rq.minPrice)
                     THEN SomeNum(StringToNumber(rq.minPrice.s)) ELSE NoNum,
                     IF Truthy(rq.maxPrice)
                     THEN SomeNum(StringToNumber(rq.maxPrice.s)) ELSE NoNum)
              ELSE q2
        q4 == IF Truthy(rq.bedrooms)
              THEN addBedroomFilter(q3, StringToNumber(rq.bedrooms.s)) ELSE q3
        q5 == IF Truthy(rq.bathrooms)
              THEN addBathroomFilter(q4, StringToNumber(rq.bathrooms.s)) ELSE q4
        q6 == IF rq.amenities.def /\ rq.amenities.items # <<>>
              THEN addAmenitiesFilter(q5, List(rq.amenities.items)) ELSE q5
    IN  ArchivedFilter(q6, rq.archived)

(***************************************************************************)
(* The Property collection and the storage operations paginate issues.     *)
(***************************************************************************)
\* does a stored property satisfy the filter object (all conditions ANDed).
\* The $or group, $text and $near are not evaluated: no listing request of
\* this model produces them, and the builder's properties compare them as
\* written.
Matches(p, q) ==
    /\ q.type.on => p.type = q.type.v
    /\ q.city.on => p.city = q.city.v
    /\ (q.price.on /\ q.price.gte.on) => JsGe(Int2Num(p.price), q.price.gte.v)
    /\ (q.price.on /\ q.price.lte.on) => JsLe(Int2Num(p.price), q.price.lte.v)
    /\ q.bedrooms.on => Int2Num(p.bedrooms) = q.bedrooms.v
    /\ q.bathrooms.on => Int2Num(p.bathrooms) = q.bathrooms.v
    /\ q.amenities.on => q.amenities.all \subseteq p.amenities
    /\ q.archived.on => p.archived = q.archived.v

RECURSIVE SelectMatching(_, _)
SelectMatching(coll, q) ==
    IF coll = <<>> THEN <<>>
    ELSE IF Matches(Head(coll), q)
         THEN <<Head(coll)>> \o SelectMatching(Tail(coll), q)
         ELSE SelectMatching(Tail(coll), q)

Reverse(seq) == [i \in 1..Len(seq) |-> seq[Len(seq) + 1 - i]]

\* sort { createdAt: -1 }: the collection is kept in creation order
SortNewestFirst(coll) == Reverse(coll)

\* the number of documents a skip argument passes over, and the number a
\* limit argument lets through, out of n candidates.  The storage engine is
\* handed the numbers as computed; an argument that is no integer is taken
\* by its integer part here (the storage engine may also reject it, which is
\* the failure outcome of the read).
SkipCount(skip, n) ==
    CASE skip.k = "nan" -> 0
      [] skip.k = "inf" -> IF skip.n > 0 THEN n ELSE 0
      [] OTHER -> LET f == skip.n \div skip.d
                  IN  IF f < 0 THEN 0 ELSE IF f > n THEN n ELSE f

LimitCount(limit, n) ==
    CASE limit.k = "nan" -> n
      [] limit.k = "inf" -> IF limit.n > 0 THEN n ELSE 0
      [] OTHER -> LET f == limit.n \div limit.d
                  IN  IF f < 0 THEN 0 ELSE IF f > n THEN n ELSE f

\* model.find(query).sort(sort).skip(skip).limit(limit): ids of the page
DbFind(coll, q, skip, limit) ==
    LET hits == SortNewestFirst(SelectMatching(coll, q))
        from == SkipCount(skip, Len(hits))
        cnt == LimitCount(limit, Len(hits) - from)
    IN  [i \in 1..cnt |-> hits[from + i].id]

\* model.countDocuments(query)
DbCount(coll, q) == Len(SelectMatching(coll, q))

(***************************************************************************)
(* paginate: skip arithmetic, the two storage operations joined by         *)
(* Promise.all, and the pagination metadata of the envelope.               *)
(***************************************************************************)
\* mutant: skip computed from the page itself, one page too far
PaginateSkip_PageTimesLimit(page, limit) == JsMul(page, limit)

PaginateSkip(page, limit) == JsMul(JsSub(page, Int2Num(1)), limit)

\* mutant: the page read is bounded by the default limit, not the request's
PaginateIssue_DefaultLimit(query, options) ==
    [find |-> [query |-> query,
               skip |-> PaginateSkip(options.page, options.limit),
               limit |-> Int2Num(DefaultLimit)],
     count |-> query]

\* mutant: countDocuments is called without the predicate
PaginateIssue_CountUnfiltered(query, options) ==
    [find |-> [query |-> query,
               skip |-> PaginateSkip(options.page, options.limit),
               limit |-> options.limit],
     count |-> EmptyQuery]

\* what paginate hands to storage: the page read gets the predicate, skip
\* and limit; countDocuments gets the predicate
PaginateIssue(query, options) ==
    [find |-> [query |-> query,
               skip |-> PaginateSkip(options.page, options.limit),
               limit |-> options.limit],
     count |-> query]

\* mutant: the page count rounded down
PaginationMeta_Floor(page, limit, total) ==
    LET totalPages == JsFloor(JsDiv(Int2Num(total), limit))
    IN  [page |-> page, limit |-> limit, total |-> total,
         totalPages |-> totalPages,
         hasNext |-> JsLt(page, totalPages),
         hasPrevious |-> JsGt(page, Int2Num(1))]

\* mutant: the last page still announces a next one
PaginationMeta_NextOnLastPage(page, limit, total) ==
    LET totalPages == JsCeil(JsDiv(Int2Num(total), limit))
    IN  [page |-> page, limit |-> limit, total |-> total,
         totalPages |-> totalPages,
         hasNext |-> JsLe(page, totalPages),
         hasPrevious |-> JsGt(page, Int2Num(1))]

PaginationMeta(page, limit, total) ==
    LET totalPages == JsCeil(JsDiv(Int2Num(total), limit))
    IN  [page |-> page, limit |-> limit, total |-> total,
         totalPages |-> totalPages,
         hasNext |-> JsLt(page, totalPages),
         hasPrevious |-> JsGt(page, Int2Num(1))]

NoMeta ==
    [page |-> NaN, limit |-> NaN, total |-> 0, totalPages |-> NaN,
     hasNext |-> FALSE, hasPrevious |-> FALSE]

\* a storage operation of the call in flight
OpIdle == [st |-> "idle", data |-> <<>>, total |-> 0, err |-> ""]
OpIssued == [st |-> "issued", data |-> <<>>, total |-> 0, err |-> ""]
OpFailed(e) == [st |-> "failed", data |-> <<>>, total |-> 0, err |-> e]
ReadOk(d) == [st |-> "ok", data |-> d, total |-> 0, err |-> ""]
CountOk(t) == [st |-> "ok", data |-> <<>>, total |-> t, err |-> ""]

\* the promise paginate returns
Pending == [kind |-> "pending", data |-> <<>>, pagination |-> NoMeta, err |-> ""]
Rejected(e) == [kind |-> "rejected", data |-> <<>>, pagination |-> NoMeta, err |-> e]
Envelope(d, m) == [kind |-> "envelope", data |-> d, pagination |-> m, err |-> ""]

\* mutant: the envelope is composed as soon as the page read is there
PaginateSettle_ReadOnly(r, c, page, limit) ==
    IF r.st = "failed" THEN Rejected(r.err)
    ELSE IF c.st = "failed" THEN Rejected(c.err)
    ELSE IF r.st = "ok"
         THEN Envelope(r.data, PaginationMeta(page, limit, c.total))
    ELSE Pending

\* mutant: a page longer than the total is treated as an error
PaginateSettle_ConsistencyCheck(r, c, page, limit) ==
    IF r.st = "failed" THEN Rejected(r.err)
    ELSE IF c.st = "failed" THEN Rejected(c.err)
    ELSE IF r.st = "ok" /\ c.st = "ok"
         THEN IF Len(r.data) > c.total THEN Rejected("Inconsistent")
              ELSE Envelope(r.data, PaginationMeta(page, limit, c.total))
    ELSE Pending

\* mutant: a failed count is swallowed and reported as total 0
PaginateSettle_SwallowCount(r, c, page, limit) ==
    IF r.st = "failed" THEN Rejected(r.err)
    ELSE IF r.st = "ok" /\ c.st \in {"ok", "failed"}
         THEN Envelope(r.data, PaginationMeta(page, limit, c.total))
    ELSE Pending

\* await Promise.all([read, count]) followed by the rest of paginate: the
\* first rejection rejects the call, both fulfilments let it compose the
\* envelope, anything else leaves it waiting
PaginateSettle(r, c, page, limit) ==
    IF r.st = "failed" THEN Rejected(r.err)
    ELSE IF c.st = "failed" THEN Rejected(c.err)
    ELSE IF r.st = "ok" /\ c.st = "ok"
         THEN Envelope(r.data, PaginationMeta(page, limit, c.total))
    ELSE Pending

(***************************************************************************)
(* State.                                                                  *)
(***************************************************************************)
VARIABLES
    store,       \* the Property collection, in creation order
    pc,          \* the listing handler: "idle", "await" (at Promise.all), "done"
    req,         \* req.query of the listing request in flight
    params,      \* what getPaginationParams returned for it
    findArgs,    \* predicate, skip and limit given to the page read
    countArgs,   \* predicate given to countDocuments
    readOp,      \* the page read
    countOp,     \* the count
    issued,      \* how often the call in flight issued each operation
    readSaw,     \* the collection as the page read found it
    countSaw,    \* the collection as the count found it
    result,      \* the promise paginate returned
    writesLeft,  \* archive/unarchive requests still to arrive
    writeStatus, \* HTTP status of the last archive/unarchive response
    lastCreate,  \* the latest createProperty request and its outcome
    builder,     \* a PropertyQueryBuilder: its query and its options
    calls,       \* the add* calls made on it so far, oldest first
    beforeCall,  \* its query as it was before the latest add* call
    addReturned, \* what the latest add* call returned
    prevBuild,   \* the build() before the latest one
    lastBuild,   \* the latest build(): what it returned, after how many calls
    leads,       \* the Lead collection, in creation order
    clients,     \* the Client collection, in creation order
    viewings,    \* the Viewing collection, in creation order
    conv,        \* the convertLeadToClientAndSchedule requests, one per slot
    startsLeft,  \* conversion requests still to arrive
    overlapped,  \* has a conversion started while another was running
    succeeded    \* per lead, the conversions of it that were answered 201

listingVars ==
    <<store, pc, req, params, findArgs, countArgs, readOp, countOp,
      issued, readSaw, countSaw, result, writesLeft, writeStatus, lastCreate>>

builderVars ==
    <<builder, calls, beforeCall, addReturned, prevBuild, lastBuild>>

leadVars ==
    <<leads, clients, viewings, conv, startsLeft, overlapped, succeeded>>

vars == <<listingVars, builderVars, leadVars>>

MaxWrites == 1

\* a stored property
Property(id, type, archived) ==
    [id |-> id, type |-> type, city |-> "London", price |-> 250000,
     bedrooms |-> 2, bathrooms |-> 1, amenities |-> {"pool"},
     coordinates |-> <<>>, archived |-> archived]

\* the collections a run starts from: one rent listing, one archived rent
\* listing, then n sale listings
SaleCounts == {1, 10, 12}

InitialStore(n) ==
    [i \in 1..(n + 2) |->
        IF i = 1 THEN Property(1, "rent", FALSE)
        ELSE IF i = 2 THEN Property(2, "rent", TRUE)
        ELSE Property(i, "sale", FALSE)]

\* query strings of the listing requests
PageInputs ==
    {Undefined, Str(<<"0">>), Str(<<"-", "1">>), Str(<<"a", "b", "c">>),
     Str(<<"2">>), Str(<<"3">>), Str(<<"1", ".", "5">>), Str(InfinityChars)}

LimitInputs ==
    {Undefined, Str(<<"0">>), Str(<<"-", "5">>), Str(<<"a", "b", "c">>),
     Str(<<"5">>), Str(<<"5", "0", "0">>), Str(<<"1", ".", "5">>),
     Str(InfinityChars)}

TypeInputs == {UndefinedText, Text("sale")}
ArchivedInputs == {UndefinedText, Text("true"), Text("false")}

\* requests that vary the paging and type parameters, and requests that
\* vary the type and archived parameters
PagingRequests ==
    [page : PageInputs, limit : LimitInputs, type : TypeInputs,
     archived : {UndefinedText}, city : {UndefinedText},
     minPrice : {Undefined}, maxPrice : {Undefined},
     bedrooms : {Undefined}, bathrooms : {Undefined},
     amenities : {UndefinedList}]
       \cup
    [page : {Undefined, Str(<<"2">>)}, limit : {Undefined, Str(<<"5">>)},
     type : TypeInputs, archived : ArchivedInputs, city : {UndefinedText},
     minPrice : {Undefined}, maxPrice : {Undefined},
     bedrooms : {Undefined}, bathrooms : {Undefined},
     amenities : {UndefinedList}]

MinPriceInputs == {Undefined, Str(<<"0">>), Str(<<"a", "b", "c">>)}
MaxPriceInputs ==
    {Undefined, Str(<<"0">>), Str(<<"5", "0", "0", "0", "0", "0">>)}
BedroomInputs == {Undefined, Str(<<"0">>), Str(<<"a", "b", "c">>), Str(<<"2">>)}
BathroomInputs == {Undefined, Str(<<"0">>)}

\* requests that vary the numeric filters
FilterRequests ==
    [page : {Undefined}, limit : {Undefined}, type : {UndefinedText},
     archived : {UndefinedText}, city : {UndefinedText},
     minPrice : MinPriceInputs, maxPrice : MaxPriceInputs,
     bedrooms : BedroomInputs, bathrooms : BathroomInputs,
     amenities : {UndefinedList}]

Requests == PagingRequests \cup FilterRequests

NoRequest ==
    [page |-> Undefined, limit |-> Undefined, type |-> UndefinedText,
     archived |-> UndefinedText, city |-> UndefinedText,
     minPrice |-> Undefined, maxPrice |-> Undefined,
     bedrooms |-> Undefined, bathrooms |-> Undefined,
     amenities |-> UndefinedList]

NoParams == [page |-> NaN, limit |-> NaN]
NoFindArgs == [query |-> EmptyQuery, skip |-> NaN, limit |-> NaN]

StorageErrors == {"ReadError", "CountError"}

(***************************************************************************)
(* createProperty: the coordinates of the body are validated and brought   *)
(* to [longitude, latitude] before Property.create; any rejection is       *)
(* answered 500.                                                           *)
(***************************************************************************)
\* the values a JSON body gives a coordinate, and undefined for a key or an
\* array element that is not there
JsUndefined == [t |-> "undefined", num |-> NaN, s |-> <<>>]
JsNull == [t |-> "null", num |-> NaN, s |-> <<>>]
JsNumber(x) == [t |-> "number", num |-> x, s |-> <<>>]
JsString(s) == [t |-> "string", num |-> NaN, s |-> s]

\* ToNumber, as isNaN(v), v < n and Number(v) apply it
ToNumber(v) ==
    CASE v.t = "number" -> v.num
      [] v.t = "undefined" -> NaN
      [] v.t = "null" -> Int2Num(0)
      [] v.t = "string" -> StringToNumber(v.s)

\* req.body.location.coordinates: absent, { lat, lng } or [lng, lat]
NoCoordinates == [form |-> "none", lat |-> JsUndefined, lng |-> JsUndefined,
                  elems |-> <<>>]
LatLng(lat, lng) == [form |-> "object", lat |-> lat, lng |-> lng, elems |-> <<>>]
LngLatArray(elems) ==
    [form |-> "array", lat |-> JsUndefined, lng |-> JsUndefined,
     elems |-> elems]

Element(elems, i) == IF i <= Len(elems) THEN elems[i] ELSE JsUndefined

\* let { lat, lng } = coordinates; if (Array.isArray(coordinates))
\* [lng, lat] = coordinates
LatOf(coordinates) ==
    IF coordinates.form = "array" THEN Element(coordinates.elems, 2)
    ELSE coordinates.lat

LngOf(coordinates) ==
    IF coordinates.form = "array" THEN Element(coordinates.elems, 1)
    ELSE coordinates.lng

\* v !== undefined && (isNaN(v) || v < -bound || v > bound)
OutOfRange(v, bound) ==
    /\ v.t # "undefined"
    /\ \/ JsIsNaN(ToNumber(v))
       \/ JsLt(ToNumber(v), Int2Num(0 - bound))
       \/ JsGt(ToNumber(v), Int2Num(bound))

MaxLatitude == 90
MaxLongitude == 180

\* the status the coordinates are turned away with, 0 when they pass
CoordinateStatus(coordinates) ==
    IF coordinates.form = "none" THEN 0
    ELSE IF OutOfRange(LatOf(coordinates), MaxLatitude) THEN 400
    ELSE IF OutOfRange(LngOf(coordinates), MaxLongitude) THEN 400
    ELSE 0

\* location.coordinates as handed to Property.create
StoredCoordinates(coordinates) ==
    IF coordinates.form = "none" THEN <<>>
    ELSE <<ToNumber(LngOf(coordinates)), ToNumber(LatOf(coordinates))>>

\* the validator of propertySchema.location.coordinates (NaN fails every
\* comparison, and is no Number the schema accepts)
SchemaAccepts(coords) ==
    \/ coords = <<>>
    \/ /\ Len(coords) = 2
       /\ JsGe(coords[1], Int2Num(0 - MaxLongitude))
       /\ JsLe(coords[1], Int2Num(MaxLongitude))
       /\ JsGe(coords[2], Int2Num(0 - MaxLatitude))
       /\ JsLe(coords[2], Int2Num(MaxLatitude))

\* the bodies of the createProperty requests
CoordinateInputs ==
    {NoCoordinates,
     LatLng(JsNumber(Int2Num(51)), JsNumber(Int2Num(0))),
     LatLng(JsNumber(Int2Num(100)), JsNumber(Int2Num(0))),
     LatLng(JsNumber(Int2Num(51)), JsNumber(Int2Num(181))),
     LatLng(JsString(<<"a", "b", "c">>), JsNumber(Int2Num(0))),
     LatLng(JsNull, JsNumber(Int2Num(0))),
     LatLng(JsUndefined, JsNumber(Int2Num(10))),
     LngLatArray(<<JsNumber(Int2Num(0)), JsNumber(Int2Num(51))>>),
     LngLatArray(<<JsNumber(Int2Num(10))>>)}

\* complete: title, price, type and location.city are there
CreateBodies ==
    [complete : {TRUE}, coordinates : CoordinateInputs]
       \cup {[complete |-> FALSE,
               coordinates |-> LatLng(JsNumber(Int2Num(51)),
                                      JsNumber(Int2Num(0)))]}

NoCreate ==
    [made |-> FALSE, body |-> [complete |-> FALSE, coordinates |-> NoCoordinates],
     status |-> 0, created |-> 0, storageError |-> FALSE]

\* the slots conversion requests run in: two can be in flight together
Slots == {"r1", "r2"}

\* new Date(`${date}T${time}`): the instant, or an invalid Date
NoInstant == [valid |-> FALSE, date |-> "", time |-> ""]

\* what Lead.findById(...).populate("property") resolved to: null, or the
\* lead with its property reference replaced by the property (null when no
\* property has that id)
NoLead ==
    [found |-> FALSE, email |-> "", property |-> 0, propertyFound |-> FALSE]

\* a slot with no request in it
NoConv ==
    [pc |-> "idle", leadId |-> 0, date |-> UndefinedText,
     time |-> UndefinedText, scheduledAt |-> NoInstant, lead |-> NoLead,
     client |-> 0, viewing |-> 0, status |-> 0, reads |-> 0, writes |-> <<>>,
     failedAt |-> ""]

\* no lead, client or viewing, and no conversion request
LeadsUnused ==
    /\ leads = <<>>
    /\ clients = <<>>
    /\ viewings = <<>>
    /\ conv = [p \in Slots |-> NoConv]
    /\ startsLeft = 0
    /\ overlapped = FALSE
    /\ succeeded = <<>>

\* a build(): the predicate it returned, after how many add* calls, whether
\* the object it returned is the accumulator itself, the content of that
\* object when it is not, and what the caller assigned to its archived key
NoBuild ==
    [done |-> FALSE, value |-> EmptyQuery, ncalls |-> 0, same |-> FALSE,
     held |-> EmptyQuery, assigned |-> OffBool]

\* no builder under study: a fresh one, never called
BuilderUnused ==
    /\ builder = [query |-> EmptyQuery, options |-> DefaultOptions]
    /\ calls = <<>>
    /\ beforeCall = EmptyQuery
    /\ addReturned = "none"
    /\ prevBuild = NoBuild
    /\ lastBuild = NoBuild

Init ==
    /\ BuilderUnused
    /\ LeadsUnused
    /\ store \in {InitialStore(n) : n \in SaleCounts}
    /\ pc = "idle"
    /\ req = NoRequest
    /\ params = NoParams
    /\ findArgs = NoFindArgs
    /\ countArgs = EmptyQuery
    /\ readOp = OpIdle
    /\ countOp = OpIdle
    /\ issued = [read |-> 0, count |-> 0]
    /\ readSaw = <<>>
    /\ countSaw = <<>>
    /\ result = Pending
    /\ writesLeft = MaxWrites
    /\ writeStatus = 0
    /\ lastCreate = NoCreate

(***************************************************************************)
(* The listing handler up to its await: getProperties builds the           *)
(* predicate, createPaginatedResponse parses page and limit, paginate      *)
(* computes skip and hands both storage operations to Promise.all.  All of *)
(* it runs without yielding to the event loop.  A new listing is taken up  *)
(* once the previous one is over.                                          *)
(***************************************************************************)
GetProperties(rq) ==
    /\ UNCHANGED <<builderVars, leadVars, lastCreate>>
    /\ pc = "idle"
    /\ LET query == BuildListingQuery(rq)
           pp == getPaginationParams(rq)
           ops == PaginateIssue(query, pp)
       IN  /\ req' = rq
           /\ params' = pp
           /\ findArgs' = ops.find
           /\ countArgs' = ops.count
    /\ readOp' = OpIssued
    /\ countOp' = OpIssued
    /\ issued' = [read |-> 1, count |-> 1]
    /\ result' = Pending
    /\ pc' = "await"
    /\ UNCHANGED <<store, readSaw, countSaw, writesLeft, writeStatus>>

\* the continuation of paginate after a storage operation completed
Resume(r, c) ==
    IF pc = "await"
    THEN LET out == PaginateSettle(r, c, params.page, params.limit)
         IN  /\ result' = out
             /\ pc' = IF out.kind = "pending" THEN "await" ELSE "done"
    ELSE UNCHANGED <<result, pc>>

\* the page read completes against the collection as it is now
ReadComplete ==
    /\ UNCHANGED <<builderVars, leadVars, lastCreate>>
    /\ readOp.st = "issued"
    /\ \E out \in {ReadOk(DbFind(store, findArgs.query, findArgs.skip,
                                 findArgs.limit)),
                   OpFailed("ReadError")} :
          /\ readOp' = out
          /\ readSaw' = IF out.st = "ok" THEN store ELSE readSaw
          /\ Resume(out, countOp)
    /\ UNCHANGED <<store, req, params, findArgs, countArgs, countOp, issued,
                   countSaw, writesLeft, writeStatus>>

\* the count completes against the collection as it is now
CountComplete ==
    /\ UNCHANGED <<builderVars, leadVars, lastCreate>>
    /\ countOp.st = "issued"
    /\ \E out \in {CountOk(DbCount(store, countArgs)),
                   OpFailed("CountError")} :
          /\ countOp' = out
          /\ countSaw' = IF out.st = "ok" THEN store ELSE countSaw
          /\ Resume(readOp, out)
    /\ UNCHANGED <<store, req, params, findArgs, countArgs, readOp, issued,
                   readSaw, writesLeft, writeStatus>>

\* The listing request is over: getProperties has sent the envelope, or the
\* rejection has left the handler, and no storage operation of the call is
\* outstanding any more.
Finish ==
    /\ UNCHANGED <<builderVars, leadVars, lastCreate>>
    /\ pc = "done"
    /\ readOp.st # "issued" /\ countOp.st # "issued"
    /\ pc' = "idle"
    /\ req' = NoRequest
    /\ params' = NoParams
    /\ findArgs' = NoFindArgs
    /\ countArgs' = EmptyQuery
    /\ readOp' = OpIdle
    /\ countOp' = OpIdle
    /\ issued' = [read |-> 0, count |-> 0]
    /\ readSaw' = <<>>
    /\ countSaw' = <<>>
    /\ result' = Pending
    /\ UNCHANGED <<store, writesLeft, writeStatus>>

(***************************************************************************)
(* archiveProperty / unarchiveProperty: findByIdAndUpdate, 404 when no     *)
(* property has the id.                                                    *)
(***************************************************************************)
SetArchived_Toggle(coll, id, flag) ==
    [i \in 1..Len(coll) |->
        IF coll[i].id = id
        THEN [coll[i] EXCEPT !.archived = ~coll[i].archived]
        ELSE coll[i]]

SetArchived(coll, id, flag) ==
    [i \in 1..Len(coll) |->
        IF coll[i].id = id THEN [coll[i] EXCEPT !.archived = flag]
        ELSE coll[i]]

HasId(coll, id) == \E i \in 1..Len(coll) : coll[i].id = id

\* ids the archive requests name: a rent listing, the newest listing, and an
\* id no property has
TargetIds == {2, Len(store), Len(store) + 1}

ArchiveProperty(id) ==
    /\ UNCHANGED <<builderVars, leadVars, lastCreate>>
    /\ writesLeft > 0
    /\ writesLeft' = writesLeft - 1
    /\ store' = SetArchived(store, id, TRUE)
    /\ writeStatus' = IF HasId(store, id) THEN 200 ELSE 404
    /\ UNCHANGED <<pc, req, params, findArgs, countArgs, readOp, countOp,
                   issued, readSaw, countSaw, result>>

UnarchiveProperty(id) ==
    /\ UNCHANGED <<builderVars, leadVars, lastCreate>>
    /\ writesLeft > 0
    /\ writesLeft' = writesLeft - 1
    /\ store' = SetArchived(store, id, FALSE)
    /\ writeStatus' = IF HasId(store, id) THEN 200 ELSE 404
    /\ UNCHANGED <<pc, req, params, findArgs, countArgs, readOp, countOp,
                   issued, readSaw, countSaw, result>>

Next ==
    \/ \E rq \in Requests : GetProperties(rq)
    \/ ReadComplete
    \/ CountComplete
    \/ Finish
    \/ \E id \in TargetIds : ArchiveProperty(id)
    \/ \E id \in TargetIds : UnarchiveProperty(id)

Spec == Init /\ [][Next]_vars

(***************************************************************************)
(* Property administration: properties are created, archived and           *)
(* unarchived while listings with and without archived=true are served.    *)
(***************************************************************************)
MaxAdminWrites == 2

\* Property.create(propertyData): rejected when a required field is missing
\* or the coordinates fail the schema, and whenever storage fails
CreateProperty(body) ==
    /\ UNCHANGED <<builderVars, leadVars>>
    /\ writesLeft > 0
    /\ writesLeft' = writesLeft - 1
    /\ LET refused == CoordinateStatus(body.coordinates)
           coords == StoredCoordinates(body.coordinates)
           id == Len(store) + 1
           accepted == body.complete /\ SchemaAccepts(coords)
       IN  IF refused # 0
           THEN /\ store' = store
                /\ writeStatus' = refused
                /\ lastCreate' = [made |-> TRUE, body |-> body,
                                  status |-> refused, created |-> 0,
                                  storageError |-> FALSE]
           ELSE \E storageError \in BOOLEAN :
                   IF accepted /\ ~storageError
                   THEN /\ store' = Append(store,
                               [Property(id, "sale", FALSE)
                                   EXCEPT !.coordinates = coords])
                        /\ writeStatus' = 201
                        /\ lastCreate' = [made |-> TRUE, body |-> body,
                                          status |-> 201, created |-> id,
                                          storageError |-> FALSE]
                   ELSE /\ store' = store
                        /\ writeStatus' = 500
                        /\ lastCreate' = [made |-> TRUE, body |-> body,
                                          status |-> 500, created |-> 0,
                                          storageError |-> storageError]
    /\ UNCHANGED <<pc, req, params, findArgs, countArgs, readOp, countOp,
                   issued, readSaw, countSaw, result>>

\* values of the archived parameter that are neither "true" nor "false"
OtherArchivedInputs == {Text("yes"), Text("TRUE"), Text("")}

\* listings with the default paging; archived is absent, "true" or another
\* value
AdminRequests ==
    [page : {Undefined}, limit : {Undefined}, type : {UndefinedText},
     archived : {UndefinedText, Text("true")} \cup OtherArchivedInputs,
     city : {UndefinedText},
     minPrice : {Undefined}, maxPrice : {Undefined},
     bedrooms : {Undefined}, bathrooms : {Undefined},
     amenities : {UndefinedList}]

InitProperties ==
    /\ BuilderUnused
    /\ LeadsUnused
    /\ store = InitialStore(1)
    /\ pc = "idle"
    /\ req = NoRequest
    /\ params = NoParams
    /\ findArgs = NoFindArgs
    /\ countArgs = EmptyQuery
    /\ readOp = OpIdle
    /\ countOp = OpIdle
    /\ issued = [read |-> 0, count |-> 0]
    /\ readSaw = <<>>
    /\ countSaw = <<>>
    /\ result = Pending
    /\ writesLeft = MaxAdminWrites
    /\ writeStatus = 0
    /\ lastCreate = NoCreate

NextProperties ==
    \/ \E rq \in AdminRequests : GetProperties(rq)
    \/ ReadComplete
    \/ CountComplete
    \/ Finish
    \/ \E id \in TargetIds : ArchiveProperty(id)
    \/ \E id \in TargetIds : UnarchiveProperty(id)
    \/ \E body \in CreateBodies : CreateProperty(body)

SpecProperties == InitProperties /\ [][NextProperties]_vars

(***************************************************************************)
(* A PropertyQueryBuilder on its own: constructed with some options, then  *)
(* given add* calls and build() calls in any order.                        *)
(***************************************************************************)
MaxCalls == 2

\* an add* call: the method and its arguments
NoCall ==
    [op |-> "", text |-> UndefinedText, min |-> NoNum, max |-> NoNum,
     num |-> NaN, list |-> UndefinedList, lat |-> NaN, lng |-> NaN,
     radius |-> NaN]

TypeCall(t) == [NoCall EXCEPT !.op = "addTypeFilter", !.text = t]
CityCall(t) == [NoCall EXCEPT !.op = "addCityFilter", !.text = t]
LocationCall(t) == [NoCall EXCEPT !.op = "addLocationFilter", !.text = t]
PriceCall(lo, hi) ==
    [NoCall EXCEPT !.op = "addPriceFilter", !.min = lo, !.max = hi]
BedroomCall(n) == [NoCall EXCEPT !.op = "addBedroomFilter", !.num = n]
BathroomCall(n) == [NoCall EXCEPT !.op = "addBathroomFilter", !.num = n]
AmenitiesCall(l) == [NoCall EXCEPT !.op = "addAmenitiesFilter", !.list = l]
TextSearchCall(t) == [NoCall EXCEPT !.op = "addTextSearch", !.text = t]
GeoCall(lat, lng, radius) ==
    [NoCall EXCEPT !.op = "addGeospatialFilter", !.lat = lat, !.lng = lng,
                   !.radius = radius]

\* the calls made on the builder under study
BuilderCalls ==
    {TypeCall(UndefinedText), TypeCall(Text("")), TypeCall(Text("sale")),
     TypeCall(Text("rent")),
     CityCall(Text("")), CityCall(Text("London")),
     LocationCall(UndefinedText), LocationCall(Text("lon")),
     PriceCall(NoNum, NoNum),
     PriceCall(SomeNum(Int2Num(100000)), SomeNum(Int2Num(500000))),
     PriceCall(NoNum, SomeNum(Int2Num(500000))),
     PriceCall(SomeNum(Int2Num(0)), SomeNum(NaN)),
     BedroomCall(Int2Num(0)), BedroomCall(Int2Num(2)),
     BathroomCall(Int2Num(1)),
     AmenitiesCall(UndefinedList), AmenitiesCall(List(<<>>)),
     AmenitiesCall(List(<<"pool", "gym">>)),
     TextSearchCall(Text("")), TextSearchCall(Text("villa")),
     GeoCall(Int2Num(0), Int2Num(1), Int2Num(1000)),
     GeoCall(Int2Num(51), Int2Num(1), Int2Num(1000))}

\* the options given to the constructor: none, or both searches enabled
NoOptions == [k \in {} |-> TRUE]

OptionInputs ==
    {NoOptions, [enableTextSearch |-> TRUE, enableGeospatial |-> TRUE]}

\* the query after an add* call
Invoke(q, options, c) ==
    CASE c.op = "addTypeFilter" -> addTypeFilter(q, c.text)
      [] c.op = "addCityFilter" -> addCityFilter(q, c.text)
      [] c.op = "addLocationFilter" -> addLocationFilter(q, c.text)
      [] c.op = "addPriceFilter" -> addPriceFilter(q, c.min, c.max)
      [] c.op = "addBedroomFilter" -> addBedroomFilter(q, c.num)
      [] c.op = "addBathroomFilter" -> addBathroomFilter(q, c.num)
      [] c.op = "addAmenitiesFilter" -> addAmenitiesFilter(q, c.list)
      [] c.op = "addTextSearch" -> addTextSearch(q, options, c.text)
      [] c.op = "addGeospatialFilter" ->
            addGeospatialFilter(q, options, c.lat, c.lng, c.radius)

\* a method applied to builder b: the builder afterwards and what the
\* method returns ("this" for the builder itself)
AddMethod(b, c) ==
    [self |-> [b EXCEPT !.query = Invoke(b.query, b.options, c)],
     returns |-> "this"]

\* a build() that hands the query over and starts a fresh accumulator
build_Resets(b) ==
    [self |-> [b EXCEPT !.query = EmptyQuery], returns |-> b.query,
     sameObject |-> FALSE]

\* a build() that returns a copy of the accumulator
build_Copy(b) == [self |-> b, returns |-> b.query, sameObject |-> FALSE]

\* return this.query: the accumulator object itself
build(b) == [self |-> b, returns |-> b.query, sameObject |-> TRUE]

\* the query after a sequence of add* calls, made in order
RECURSIVE ApplyCalls(_, _, _)
ApplyCalls(q, options, cs) ==
    IF cs = <<>> THEN q
    ELSE ApplyCalls(Invoke(q, options, Head(cs)), options, Tail(cs))

InitBuilder ==
    /\ store = <<>>
    /\ pc = "idle"
    /\ req = NoRequest
    /\ params = NoParams
    /\ findArgs = NoFindArgs
    /\ countArgs = EmptyQuery
    /\ readOp = OpIdle
    /\ countOp = OpIdle
    /\ issued = [read |-> 0, count |-> 0]
    /\ readSaw = <<>>
    /\ countSaw = <<>>
    /\ result = Pending
    /\ writesLeft = 0
    /\ writeStatus = 0
    /\ lastCreate = NoCreate
    /\ builder \in {[query |-> EmptyQuery, options |-> NewBuilderOptions(o)] :
                       o \in OptionInputs}
    /\ calls = <<>>
    /\ beforeCall = EmptyQuery
    /\ addReturned = "none"
    /\ prevBuild = NoBuild
    /\ lastBuild = NoBuild
    /\ LeadsUnused

AddCall(c) ==
    /\ Len(calls) < MaxCalls
    /\ LET r == AddMethod(builder, c)
       IN  /\ builder' = r.self
           /\ addReturned' = r.returns
    /\ calls' = Append(calls, c)
    /\ beforeCall' = builder.query
    /\ UNCHANGED <<prevBuild, lastBuild, listingVars, leadVars>>

\* the object the latest build() returned, as its caller finds it now
ReturnedObject == IF lastBuild.same THEN builder.query ELSE lastBuild.held

BuildCall ==
    /\ LET r == build(builder)
       IN  /\ builder' = r.self
           /\ lastBuild' = [done |-> TRUE, value |-> r.returns,
                            ncalls |-> Len(calls), same |-> r.sameObject,
                            held |-> r.returns, assigned |-> OffBool]
    /\ prevBuild' = lastBuild
    /\ UNCHANGED <<calls, beforeCall, addReturned, listingVars, leadVars>>

NextBuilder ==
    \/ \E c \in BuilderCalls : AddCall(c)
    \/ BuildCall

SpecBuilder == InitBuilder /\ [][NextBuilder]_vars

(***************************************************************************)
(* The builder as getProperties uses it: the caller of build() assigns     *)
(* archived on the object it was handed, and may go on calling add* and    *)
(* build().                                                                *)
(***************************************************************************)
\* query.archived = flag, on the object the latest build() returned
AssignArchived(flag) ==
    /\ lastBuild.done
    /\ LET written == [on |-> TRUE, v |-> flag]
       IN  /\ lastBuild' = [lastBuild EXCEPT !.held.archived = written,
                                             !.assigned = written]
           /\ builder' = IF lastBuild.same
                         THEN [builder EXCEPT !.query.archived = written]
                         ELSE builder
    /\ UNCHANGED <<calls, beforeCall, addReturned, prevBuild, listingVars,
                   leadVars>>

\* the add* calls made around build() in this use
CallerCalls ==
    {TypeCall(Text("sale")), TypeCall(Text("rent")), CityCall(Text("London")),
     PriceCall(NoNum, SomeNum(Int2Num(500000))), BedroomCall(Int2Num(2)),
     AmenitiesCall(List(<<"pool", "gym">>))}

NextCaller ==
    \/ \E c \in CallerCalls : AddCall(c)
    \/ BuildCall
    \/ \E flag \in BOOLEAN : AssignArchived(flag)

SpecCaller == InitBuilder /\ [][NextCaller]_vars

(***************************************************************************)
(* convertLeadToClientAndSchedule.  The handler validates the body without *)
(* yielding, then awaits four or five storage operations one after the     *)
(* other; other requests run between them.  A rejected operation rejects   *)
(* the handler: it has no catch block and undoes nothing.                  *)
(***************************************************************************)
MaxStarts == 2

\* a lead as submitLead stores it
Lead(email, property) ==
    [email |-> email, property |-> property, status |-> "new",
     convertedToClient |-> 0]

\* the leads the conversions work on: two of one person for two properties,
\* one of somebody else, and one whose property has been deleted since
InitialLeads ==
    <<Lead("ann@example.com", 1), Lead("ann@example.com", 3),
      Lead("bob@example.com", 1), Lead("cat@example.com", 9)>>

\* req.params.leadId: the four leads and an id no lead has
LeadIdInputs == {1, 2, 3, 4, 5}

\* req.body.date and req.body.time of the requests that are answered 400
MalformedBodies ==
    {[date |-> UndefinedText, time |-> Text("10:30")],
     [date |-> Text("2025-01-15"), time |-> UndefinedText],
     [date |-> Text("2025-01-15"), time |-> Text("")],
     [date |-> Text("someday"), time |-> Text("10:30")],
     [date |-> Text("2025-01-15"), time |-> Text("25:99")]}

\* the requests that arrive: a well-formed body for every lead id, and the
\* malformed bodies for a lead that exists and for an id no lead has
ConvertRequests ==
    [leadId : LeadIdInputs, date : {Text("2025-01-15")},
     time : {Text("10:30")}]
      \cup {[leadId |-> l, date |-> b.date, time |-> b.time] :
               l \in {1, 5}, b \in MalformedBodies}

\* the strings the Date constructor accepts as the halves of
\* "YYYY-MM-DDTHH:MM"
ValidDates == {"2025-01-15"}
ValidTimes == {"10:30"}

NewDate(date, time) ==
    IF date \in ValidDates /\ time \in ValidTimes
    THEN [valid |-> TRUE, date |-> date, time |-> time]
    ELSE NoInstant

\* a validation that only looks for missing fields
BodyStatus_MissingOnly(date, time) ==
    IF ~TruthyText(date) \/ ~TruthyText(time) THEN 400 ELSE 0

\* lines 36-52: the status the body is turned away with, 0 when it passes
BodyStatus(date, time) ==
    IF ~TruthyText(date) \/ ~TruthyText(time) THEN 400
    ELSE IF ~NewDate(date.t, time.t).valid THEN 400
    ELSE 0

\* Lead.findById(leadId).populate("property")
FindLeadById(coll, props, leadId) ==
    IF leadId \in 1..Len(coll)
    THEN [found |-> TRUE, email |-> coll[leadId].email,
          property |-> coll[leadId].property,
          propertyFound |-> HasId(props, coll[leadId].property)]
    ELSE NoLead

\* a client query that never finds anybody
FindOneByEmail_Nobody(coll, email) == 0

\* a client query that ignores the email
FindOneByEmail_Oldest(coll, email) == IF coll = <<>> THEN 0 ELSE 1

\* Client.findOne({ email }): the id of the oldest client with the email,
\* 0 for null
FindOneByEmail(coll, email) ==
    IF \E i \in 1..Len(coll) : coll[i].email = email
    THEN CHOOSE i \in 1..Len(coll) :
            /\ coll[i].email = email
            /\ \A j \in 1..(i - 1) : coll[j].email # email
    ELSE 0

\* a handler that takes back the client it created when a later write fails
ClientsAfterRejection_Rollback(coll, c) ==
    IF c.writes # <<>> /\ c.writes[1] = "client" /\ c.client = Len(coll)
    THEN SubSeq(coll, 1, Len(coll) - 1) ELSE coll

\* the Client collection after a write of request c was rejected: the
\* rejection leaves the handler, nothing is undone
ClientsAfterRejection(coll, c) == coll

\* a handler that refuses leads that are converted already
LeadMissing_OrConverted(coll, lead, leadId) ==
    ~lead.found \/ coll[leadId].status = "converted"

\* if (!lead) return 404
LeadMissing(coll, lead, leadId) == ~lead.found

InFlight(c) == c.pc \notin {"idle", "done", "failed"}

Answered(c, status) == [c EXCEPT !.pc = "done", !.status = status]

Rejected500(c, at) == [c EXCEPT !.pc = "failed", !.failedAt = at]

\* a request is given the first slot no request runs in
FirstFreeSlot ==
    IF ~InFlight(conv["r1"]) THEN "r1" ELSE "r2"

InitLeads ==
    /\ store = InitialStore(1)
    /\ pc = "idle"
    /\ req = NoRequest
    /\ params = NoParams
    /\ findArgs = NoFindArgs
    /\ countArgs = EmptyQuery
    /\ readOp = OpIdle
    /\ countOp = OpIdle
    /\ issued = [read |-> 0, count |-> 0]
    /\ readSaw = <<>>
    /\ countSaw = <<>>
    /\ result = Pending
    /\ writesLeft = 0
    /\ writeStatus = 0
    /\ lastCreate = NoCreate
    /\ BuilderUnused
    /\ leads = InitialLeads
    /\ clients = <<>>
    /\ viewings = <<>>
    /\ conv = [p \in Slots |-> NoConv]
    /\ startsLeft = MaxStarts
    /\ overlapped = FALSE
    /\ succeeded = [l \in 1..Len(InitialLeads) |-> 0]

\* lines 33-54: the body is validated, then the lead is asked for
ConvertStart(p, leadId, date, time) ==
    /\ ~InFlight(conv[p])
    /\ \A q \in Slots : ~InFlight(conv[q]) => p = FirstFreeSlot
    /\ startsLeft > 0
    /\ startsLeft' = startsLeft - 1
    /\ LET c == [NoConv EXCEPT !.leadId = leadId, !.date = date,
                                !.time = time]
           scheduledAt == NewDate(date.t, time.t)
       IN  IF BodyStatus(date, time) # 0
           THEN conv' = [conv EXCEPT ![p] = Answered(c, BodyStatus(date, time))]
                /\ UNCHANGED overlapped
           ELSE /\ conv' = [conv EXCEPT ![p] =
                              [c EXCEPT !.pc = "findLead",
                                        !.scheduledAt = scheduledAt]]
                /\ overlapped' =
                      (overlapped \/ \E q \in Slots \ {p} : InFlight(conv[q]))
    /\ UNCHANGED <<leads, clients, viewings, succeeded, listingVars,
                   builderVars>>

\* lines 54-57: the lead arrives; 404 without one, else the client is asked
\* for
FindLead(p) ==
    /\ conv[p].pc = "findLead"
    /\ LET lead == FindLeadById(leads, store, conv[p].leadId)
           c == [conv[p] EXCEPT !.reads = @ + 1]
       IN  conv' = [conv EXCEPT ![p] =
                      IF LeadMissing(leads, lead, conv[p].leadId)
                      THEN Answered(c, 404)
                      ELSE [c EXCEPT !.pc = "findClient", !.lead = lead]]
    /\ UNCHANGED <<leads, clients, viewings, startsLeft, overlapped,
                   succeeded, listingVars, builderVars>>

\* lines 57-59: the client query answers
FindClient(p) ==
    /\ conv[p].pc = "findClient"
    /\ LET found == FindOneByEmail(clients, conv[p].lead.email)
       IN  conv' = [conv EXCEPT ![p] =
                      [@ EXCEPT !.reads = @ + 1,
                                !.client = found,
                                !.pc = IF found = 0 THEN "createClient"
                                       ELSE "createViewing"]]
    /\ UNCHANGED <<leads, clients, viewings, startsLeft, overlapped,
                   succeeded, listingVars, builderVars>>

\* lines 59-63: Client.create resolves or rejects
CreateClient(p) ==
    /\ conv[p].pc = "createClient"
    /\ \/ /\ clients' = Append(clients, [email |-> conv[p].lead.email])
          /\ conv' = [conv EXCEPT ![p] =
                         [@ EXCEPT !.client = Len(clients) + 1,
                                   !.writes = Append(@, "client"),
                                   !.pc = "createViewing"]]
       \/ /\ clients' = ClientsAfterRejection(clients, conv[p])
          /\ conv' = [conv EXCEPT ![p] = Rejected500(@, "client")]
    /\ UNCHANGED <<leads, viewings, startsLeft, overlapped, succeeded,
                   listingVars, builderVars>>

\* (the lead and answered fields of a viewing are bookkeeping of this model:
\* the conversion that created it, and whether that conversion was answered
\* 201)
\* lines 66-70: lead.property._id throws when the property is gone;
\* otherwise Viewing.create resolves or rejects
CreateViewing(p) ==
    /\ conv[p].pc = "createViewing"
    /\ \/ /\ conv[p].lead.propertyFound
          /\ viewings' = Append(viewings,
                                [client |-> conv[p].client,
                                 property |-> conv[p].lead.property,
                                 scheduledAt |-> conv[p].scheduledAt,
                                 lead |-> conv[p].leadId,
                                 answered |-> FALSE])
          /\ conv' = [conv EXCEPT ![p] =
                         [@ EXCEPT !.viewing = Len(viewings) + 1,
                                   !.writes = Append(@, "viewing"),
                                   !.pc = "saveLead"]]
          /\ UNCHANGED clients
       \/ /\ viewings' = viewings
          /\ clients' = ClientsAfterRejection(clients, conv[p])
          /\ conv' = [conv EXCEPT ![p] = Rejected500(@, "viewing")]
    /\ UNCHANGED <<leads, startsLeft, overlapped, succeeded, listingVars,
                   builderVars>>

\* lines 72-81: lead.save() resolves and the handler answers 201, or rejects
SaveLead(p) ==
    /\ conv[p].pc = "saveLead"
    /\ \/ /\ leads' = [leads EXCEPT ![conv[p].leadId] =
                          [@ EXCEPT !.status = "converted",
                                    !.convertedToClient = conv[p].client]]
          /\ conv' = [conv EXCEPT ![p] =
                         Answered([@ EXCEPT !.writes = Append(@, "lead")], 201)]
          /\ succeeded' = [succeeded EXCEPT ![conv[p].leadId] = @ + 1]
          /\ viewings' = [viewings EXCEPT ![conv[p].viewing].answered = TRUE]
          /\ UNCHANGED clients
       \/ /\ leads' = leads
          /\ clients' = ClientsAfterRejection(clients, conv[p])
          /\ conv' = [conv EXCEPT ![p] = Rejected500(@, "lead")]
          /\ UNCHANGED <<succeeded, viewings>>
    /\ UNCHANGED <<startsLeft, overlapped, listingVars, builderVars>>

NextLeads ==
    \/ \E p \in Slots, rq \in ConvertRequests :
          ConvertStart(p, rq.leadId, rq.date, rq.time)
    \/ \E p \in Slots : FindLead(p)
    \/ \E p \in Slots : FindClient(p)
    \/ \E p \in Slots : CreateClient(p)
    \/ \E p \in Slots : CreateViewing(p)
    \/ \E p \in Slots : SaveLead(p)

SpecLeads == InitLeads /\ [][NextLeads]_vars

(***************************************************************************)
(* Properties.                                                             *)
(***************************************************************************)
InvalidPageInputs ==
    {Undefined, Str(<<"0">>), Str(<<"-", "1">>), Str(<<"a", "b", "c">>)}

InvalidLimitInputs ==
    {Undefined, Str(<<"0">>), Str(<<"-", "5">>), Str(<<"a", "b", "c">>)}

\* C1: a listing request whose page is missing, "0", "-1" or "abc" is served
\* as page 1, whatever its limit: getPaginationParams yields page 1 and the
\* envelope reports pagination.page = 1.
C1_InvalidPageIsOne ==
    (pc # "idle" /\ req.page \in InvalidPageInputs) =>
        /\ params.page = Int2Num(1)
        /\ result.kind = "envelope" => result.pagination.page = Int2Num(1)

\* an envelope for page "abc" with the valid limit "5", which is applied
C1_Witness ==
    /\ result.kind = "envelope"
    /\ req.page = Str(<<"a", "b", "c">>)
    /\ req.limit = Str(<<"5">>)
    /\ result.pagination.page = Int2Num(1)
    /\ result.pagination.limit = Int2Num(5)

\* C2: a listing request whose limit is missing, "0", "-5" or "abc" is served
\* with the default limit 10, whatever its page: getPaginationParams yields
\* limit 10 and the envelope reports pagination.limit = 10.
C2_InvalidLimitIsDefault ==
    (pc # "idle" /\ req.limit \in InvalidLimitInputs) =>
        /\ params.limit = Int2Num(10)
        /\ result.kind = "envelope" => result.pagination.limit = Int2Num(10)

\* an envelope for limit "-5" with the valid page "2", which is applied
C2_Witness ==
    /\ result.kind = "envelope"
    /\ req.limit = Str(<<"-", "5">>)
    /\ req.page = Str(<<"2">>)
    /\ result.pagination.limit = Int2Num(10)
    /\ result.pagination.page = Int2Num(2)

Min(a, b) == IF a < b THEN a ELSE b
Max(a, b) == IF a > b THEN a ELSE b

\* C3 (as claimed): a listing request whose limit is a number above maxLimit
\* is read and reported with limit = maxLimit.
C3_LimitClampedToMax ==
    (/\ pc # "idle"
     /\ req.limit.def
     /\ JsGt(StringToNumber(req.limit.s), Int2Num(MaxLimit))) =>
        /\ findArgs.limit = Int2Num(MaxLimit)
        /\ result.kind = "envelope" =>
              result.pagination.limit = Int2Num(MaxLimit)

\* C4 (as claimed): the page and limit getPaginationParams produces are
\* finite integers, each at least 1.
C4_ParamsFiniteIntegers ==
    pc # "idle" =>
        /\ JsIsInteger(params.page) /\ params.page.n >= 1
        /\ JsIsInteger(params.limit) /\ params.limit.n >= 1

\* C5: for an integer page p >= 1 and limit l >= 1 the page read is given
\* skip (p - 1) * l and limit l, and what it returns is the matching
\* records, newest first, from position (p - 1) * l + 1 on, at most l of them.
C5_SkipAndLimit ==
    (pc # "idle" /\ JsIsInteger(params.page) /\ JsIsInteger(params.limit)) =>
        LET p == params.page.n
            l == params.limit.n
            off == (p - 1) * l
            hits == SortNewestFirst(SelectMatching(readSaw, findArgs.query))
        IN  /\ p >= 1 /\ l >= 1
            /\ findArgs.skip = Int2Num(off)
            /\ findArgs.limit = Int2Num(l)
            /\ readOp.st = "ok" =>
                  readOp.data =
                     [i \in 1..Min(l, Max(0, Len(hits) - off)) |->
                         hits[off + i].id]

\* page 3 with limit 5 skips 10 records and returns the rest of 13
C5_Witness ==
    /\ req.page = Str(<<"3">>)
    /\ req.limit = Str(<<"5">>)
    /\ findArgs.skip = Int2Num(10)
    /\ readOp.st = "ok"
    /\ Len(readOp.data) = 3

\* C6: for finite page >= 1 and limit >= 1 the envelope reports
\* totalPages = 0 when total = 0 and ceil(total / limit) otherwise,
\* hasNext = (page < totalPages) and hasPrevious = (page > 1) whatever the
\* total; (1, 10, 0) gives {0, false, false}, (2, 5, 10) gives {2, false, true}.
C6_Summary ==
    (/\ result.kind = "envelope"
     /\ JsIsFinite(params.page) /\ JsIsFinite(params.limit)) =>
        LET m == result.pagination
            t == m.total
            \* ceil(t / (n/d)) in integer arithmetic
            tp == IF t = 0 THEN 0
                  ELSE (t * params.limit.d + params.limit.n - 1)
                          \div params.limit.n
        IN  /\ t >= 0
            /\ m.totalPages = Int2Num(tp)
            /\ m.hasNext = (params.page.n < tp * params.page.d)
            /\ m.hasPrevious = (params.page.n > params.page.d)
            /\ (m.page = Int2Num(1) /\ m.limit = Int2Num(10) /\ t = 0) =>
                  /\ m.totalPages = Int2Num(0)
                  /\ ~m.hasNext /\ ~m.hasPrevious
            /\ (m.page = Int2Num(2) /\ m.limit = Int2Num(5) /\ t = 10) =>
                  /\ m.totalPages = Int2Num(2)
                  /\ ~m.hasNext /\ m.hasPrevious

\* page 2, limit 5 over 10 matching records
C6_Witness ==
    /\ result.kind = "envelope"
    /\ result.pagination.page = Int2Num(2)
    /\ result.pagination.limit = Int2Num(5)
    /\ result.pagination.total = 10
    /\ result.pagination.totalPages = Int2Num(2)

\* the number of records of a collection that satisfy a predicate
NumMatching(coll, q) == Cardinality({i \in 1..Len(coll) : Matches(coll[i], q)})

\* C7: an envelope holds at most limit records, reports the page and limit
\* parsed from the request, and its total is the number of stored records
\* that matched the request's predicate when they were counted; page "2",
\* limit "5" over 12 matching records gives total 12, totalPages 3, hasNext,
\* hasPrevious and at most 5 records.
C7_Envelope ==
    result.kind = "envelope" =>
        LET m == result.pagination
        IN  /\ JsLe(Int2Num(Len(result.data)), params.limit)
            /\ m.page = params.page
            /\ m.limit = params.limit
            /\ m.total = NumMatching(countSaw, BuildListingQuery(req))
            /\ (/\ req.page = Str(<<"2">>) /\ req.limit = Str(<<"5">>)
                /\ NumMatching(countSaw, BuildListingQuery(req)) = 12) =>
                  /\ m = [page |-> Int2Num(2), limit |-> Int2Num(5),
                          total |-> 12, totalPages |-> Int2Num(3),
                          hasNext |-> TRUE, hasPrevious |-> TRUE]
                  /\ Len(result.data) <= 5

\* the sale listings, page "2", limit "5", with 12 of them stored
C7_Witness ==
    /\ result.kind = "envelope"
    /\ req.type = Text("sale")
    /\ req.page = Str(<<"2">>)
    /\ req.limit = Str(<<"5">>)
    /\ result.pagination.total = 12
    /\ result.pagination.totalPages = Int2Num(3)
    /\ Len(result.data) = 5

\* C8: no storage result arrives before both operations were issued, the
\* call stays pending while an operation is outstanding and none has
\* failed, and an envelope exists only when both have completed.
C8_ForkJoin ==
    /\ (readOp.st \in {"ok", "failed"} \/ countOp.st \in {"ok", "failed"}) =>
          issued = [read |-> 1, count |-> 1]
    /\ pc = "await" =>
          /\ result.kind = "pending"
          /\ readOp.st = "issued" \/ countOp.st = "issued"
    /\ result.kind = "envelope" => readOp.st = "ok" /\ countOp.st = "ok"

\* the count has completed first and the call still waits for the page read
C8_Witness ==
    /\ pc = "await"
    /\ countOp.st = "ok"
    /\ readOp.st = "issued"
    /\ result.kind = "pending"

\* C9: once the page read or the count has failed, the call is rejected with
\* the error of a failed operation, it carries no data and no pagination,
\* and each operation was issued exactly once.
C9_FailurePropagates ==
    (readOp.st = "failed" \/ countOp.st = "failed") =>
        /\ result.kind = "rejected"
        /\ result.data = <<>> /\ result.pagination = NoMeta
        /\ result.err \in
              {op.err : op \in {o \in {readOp, countOp} : o.st = "failed"}}
        /\ result.err \in StorageErrors
        /\ issued = [read |-> 1, count |-> 1]

\* the page read succeeded, the count failed, the call is rejected with the
\* count's error
C9_Witness ==
    /\ readOp.st = "ok"
    /\ Len(readOp.data) > 0
    /\ countOp.st = "failed"
    /\ result.kind = "rejected"
    /\ result.err = "CountError"

\* C10: the count is given the predicate the page read is given, and its
\* result is the number of all stored records matching it, whatever page,
\* limit and skip are.
C10_SamePredicate ==
    pc # "idle" =>
        /\ countArgs = findArgs.query
        /\ countArgs = BuildListingQuery(req)
        /\ countOp.st = "ok" =>
              countOp.total = NumMatching(countSaw, findArgs.query)

\* 13 records counted for a read bounded to 5 that skips 5
C10_Witness ==
    /\ countOp.st = "ok"
    /\ countOp.total = 13
    /\ findArgs.limit = Int2Num(5)
    /\ findArgs.skip = Int2Num(5)
    /\ findArgs.query.archived.on

\* C11: when the collection changed between the page read and the count,
\* the call still returns an envelope: its data is the page as the read
\* found it and its total is the count as the count found it, so the total
\* need not be the number of records that matched when the page was read.
C11_WriteBetweenReadAndCount ==
    (readOp.st = "ok" /\ countOp.st = "ok" /\ readSaw # countSaw) =>
        /\ pc = "done"
        /\ result.kind = "envelope"
        /\ result.data = DbFind(readSaw, findArgs.query, findArgs.skip,
                                findArgs.limit)
        /\ result.pagination.total = NumMatching(countSaw, findArgs.query)

\* an envelope whose total is not the number of records that matched when
\* its page was read
C11_Witness ==
    /\ result.kind = "envelope"
    /\ readSaw # countSaw
    /\ result.pagination.total # NumMatching(readSaw, findArgs.query)
    /\ Len(result.data) > result.pagination.total


(***************************************************************************)
(* The query builder.                                                      *)
(***************************************************************************)
LastCall == calls[Len(calls)]

\* C12: addTypeFilter or addCityFilter called with undefined or with the
\* empty string leaves the accumulated query exactly as it was, whatever it
\* holds, and returns the builder.
C12_EmptyTypeOrCityNoOp ==
    (/\ calls # <<>>
     /\ LastCall.op \in {"addTypeFilter", "addCityFilter"}
     /\ ~TruthyText(LastCall.text))
        => /\ builder.query = beforeCall
           /\ addReturned = "this"

C12_Witness ==
    /\ Len(calls) = 2
    /\ calls[1] = TypeCall(Text("sale"))
    /\ LastCall = TypeCall(Text(""))
    /\ beforeCall.type = [on |-> TRUE, v |-> "sale"]
    /\ builder.query = beforeCall
    /\ addReturned = "this"

\* records a built predicate is evaluated on
PriceSamples == {0, 99999, 100000, 300000, 500000, 500001}
WithPrice(p) == [Property(1, "sale", FALSE) EXCEPT !.price = p]
PriceOnly(q) == [EmptyQuery EXCEPT !.price = q.price]

\* C13: addPriceFilter(min, max) applies exactly the provided sides
\* (price >= min when min is provided, price <= max when max is provided),
\* both when both are provided, and leaves the query unchanged when neither
\* is provided; a side is provided when it passes the method's own test
\* (a number other than 0 and NaN).  No other key of the query changes.
C13_PriceSides ==
    (calls # <<>> /\ LastCall.op = "addPriceFilter") =>
        LET lo == LastCall.min
            hi == LastCall.max
        IN  IF ~TruthyOptNum(lo) /\ ~TruthyOptNum(hi)
            THEN builder.query = beforeCall
            ELSE /\ \A p \in PriceSamples :
                       Matches(WithPrice(p), PriceOnly(builder.query))
                          <=> /\ TruthyOptNum(lo) => JsGe(Int2Num(p), lo.num)
                              /\ TruthyOptNum(hi) => JsLe(Int2Num(p), hi.num)
                 /\ [builder.query EXCEPT !.price = OffPrice]
                      = [beforeCall EXCEPT !.price = OffPrice]

C13_Witness ==
    /\ Len(calls) = 2
    /\ calls[1] = CityCall(Text("London"))
    /\ LastCall = PriceCall(SomeNum(Int2Num(100000)), SomeNum(Int2Num(500000)))
    /\ builder.query.city.on
    /\ Matches(WithPrice(100000), builder.query)
    /\ Matches(WithPrice(500000), builder.query)
    /\ ~Matches(WithPrice(99999), builder.query)
    /\ ~Matches(WithPrice(500001), builder.query)

AmenitySamples == SUBSET {"pool", "gym", "spa"}
WithAmenities(a) == [Property(1, "sale", FALSE) EXCEPT !.amenities = a]
AmenitiesOnly(q) == [EmptyQuery EXCEPT !.amenities = q.amenities]

\* C14: addAmenitiesFilter with a non-empty list yields a criterion matched
\* exactly by the records whose amenities contain every given value (a
\* record holding only some of them does not match); with an empty or
\* absent list the query is unchanged.
C14_AmenitiesSuperset ==
    (calls # <<>> /\ LastCall.op = "addAmenitiesFilter") =>
        LET l == LastCall.list
        IN  IF l.def /\ l.items # <<>>
            THEN /\ \A a \in AmenitySamples :
                       Matches(WithAmenities(a), AmenitiesOnly(builder.query))
                          <=> \A i \in 1..Len(l.items) : l.items[i] \in a
                 /\ [builder.query EXCEPT !.amenities = OffAll]
                      = [beforeCall EXCEPT !.amenities = OffAll]
            ELSE builder.query = beforeCall

C14_Witness ==
    /\ Len(calls) = 2
    /\ calls[1] = TypeCall(Text("sale"))
    /\ LastCall = AmenitiesCall(List(<<"pool", "gym">>))
    /\ Matches(WithAmenities({"pool", "gym", "spa"}), builder.query)
    /\ ~Matches(WithAmenities({"pool"}), builder.query)
    /\ ~Matches(WithAmenities({"gym", "spa"}), builder.query)

\* C15: on a builder constructed without text search enabled addTextSearch
\* leaves the query unchanged for every input, on a builder without
\* geospatial mode enabled addGeospatialFilter leaves the query unchanged
\* for every input, and both return normally (the builder itself).
C15_DisabledSearchNoOp ==
    /\ (/\ calls # <<>>
        /\ LastCall.op = "addTextSearch"
        /\ ~builder.options.enableTextSearch)
          => (builder.query = beforeCall /\ addReturned = "this")
    /\ (/\ calls # <<>>
        /\ LastCall.op = "addGeospatialFilter"
        /\ ~builder.options.enableGeospatial)
          => (builder.query = beforeCall /\ addReturned = "this")

C15_Witness ==
    /\ builder.options = DefaultOptions
    /\ Len(calls) = 2
    /\ calls[1] = TextSearchCall(Text("villa"))
    /\ LastCall = GeoCall(Int2Num(51), Int2Num(1), Int2Num(1000))
    /\ builder.query = EmptyQuery
    /\ addReturned = "this"

Rearranged(f) == [i \in 1..Len(calls) |-> calls[f[i]]]

\* the criterion a call adds on its own
Criterion(c) == Invoke(EmptyQuery, builder.options, c)

\* is the criterion of call c one of the conjuncts of query q
Conjoined(c, q) ==
    \A k \in DOMAIN EmptyQuery : Criterion(c)[k].on => q[k] = Criterion(c)[k]

\* calls that add a criterion, and whether two of them use the same method
\* (each method writes one key of the query)
Effective(c) == Criterion(c) # EmptyQuery

SameKeyTwice ==
    \E i, j \in 1..Len(calls) :
        /\ i < j
        /\ Effective(calls[i]) /\ Effective(calls[j])
        /\ calls[i].op = calls[j].op

\* C17 as stated: for any sequence of add* calls and any permutation of it
\* build() yields the same predicate, and every criterion added is
\* conjoined with the others.
C17_AnyPermutation ==
    /\ \A f \in Permutations(1..Len(calls)) :
          ApplyCalls(EmptyQuery, builder.options, Rearranged(f)) = builder.query
    /\ \A i \in 1..Len(calls) : Conjoined(calls[i], builder.query)

\* C17 amended: the same, for the sequences in which no two calls that add
\* a criterion use the same add* method.
C17_DistinctMethodsPermutation ==
    ~SameKeyTwice =>
        /\ \A f \in Permutations(1..Len(calls)) :
              ApplyCalls(EmptyQuery, builder.options, Rearranged(f))
                 = builder.query
        /\ \A i \in 1..Len(calls) : Conjoined(calls[i], builder.query)

C17_Witness ==
    /\ calls = <<LocationCall(Text("lon")), TypeCall(Text("sale"))>>
    /\ ~SameKeyTwice
    /\ builder.query.or.on
    /\ builder.query.type = [on |-> TRUE, v |-> "sale"]
    /\ ApplyCalls(EmptyQuery, builder.options,
                  <<TypeCall(Text("sale")), LocationCall(Text("lon"))>>)
          = builder.query

\* the fields addLocationFilter searches
SearchedFields == {"location.city", "location.address"}

InGroup(cond, group) == \E i \in 1..Len(group) : group[i] = cond

\* C18 as stated: addLocationFilter(term) with a present term produces one
\* OR group that contains, for every searched field, both a whole-field
\* anchored case-insensitive variant and a contains case-insensitive
\* variant; with an absent term the query is unchanged.
C18_BothVariantsEveryField ==
    (calls # <<>> /\ LastCall.op = "addLocationFilter") =>
        IF TruthyText(LastCall.text)
        THEN /\ builder.query.or.on
             /\ \A field \in SearchedFields : \A anchored \in BOOLEAN :
                   InGroup(RegexCond(field, anchored, LastCall.text.t),
                           builder.query.or.group)
        ELSE builder.query = beforeCall

\* C18 amended: with a present term the query gets exactly one OR group of
\* three case-insensitive conditions, in this order: location.city anchored
\* to the whole field, location.city contains, location.address contains
\* (location.address has no anchored variant); nothing else changes.  With
\* an absent term the query is unchanged.
C18_LocationOrGroup ==
    (calls # <<>> /\ LastCall.op = "addLocationFilter") =>
        IF TruthyText(LastCall.text)
        THEN /\ builder.query.or.on
             /\ builder.query.or.group =
                   <<RegexCond("location.city", TRUE, LastCall.text.t),
                     RegexCond("location.city", FALSE, LastCall.text.t),
                     RegexCond("location.address", FALSE, LastCall.text.t)>>
             /\ \A i \in 1..Len(builder.query.or.group) :
                   builder.query.or.group[i].options = "i"
             /\ [builder.query EXCEPT !.or = OffOr]
                   = [beforeCall EXCEPT !.or = OffOr]
        ELSE builder.query = beforeCall

C18_Witness ==
    /\ calls = <<CityCall(Text("London")), LocationCall(Text("lon"))>>
    /\ builder.query.city.on
    /\ builder.query.or.on
    /\ Len(builder.query.or.group) = 3
    /\ InGroup(RegexCond("location.address", FALSE, "lon"),
               builder.query.or.group)
    /\ ~InGroup(RegexCond("location.address", TRUE, "lon"),
                builder.query.or.group)

(***************************************************************************)
(* The listing handlers' predicate.                                        *)
(***************************************************************************)
\* C19: in the listing handlers the predicate handed to the storage
\* operations has archived = false when the archived parameter is absent
\* (no archived record is in the page), archived = true for "true" and
\* archived = false for "false".
C19_ArchivedDefault ==
    pc # "idle" =>
        /\ findArgs.query.archived.on /\ countArgs.archived.on
        /\ findArgs.query.archived.v = (req.archived = Text("true"))
        /\ countArgs.archived.v = (req.archived = Text("true"))
        /\ result.kind = "envelope" =>
              \A i \in 1..Len(result.data) :
                  readSaw[result.data[i]].archived
                     = (req.archived = Text("true"))

C19_Witness ==
    /\ pc = "done"
    /\ req.archived = UndefinedText
    /\ req.type = UndefinedText
    /\ result.kind = "envelope"
    /\ result.data # <<>>
    /\ \E i \in 1..Len(readSaw) : readSaw[i].archived
    /\ \A i \in 1..Len(result.data) : ~readSaw[result.data[i]].archived

\* a query parameter that is given but whose Number() is NaN or 0
CoercesToNothing(v) == Truthy(v) /\ ~JsTruthyNum(StringToNumber(v.s))

\* C20: in the builder-based getProperties a minPrice, maxPrice, bedrooms
\* or bathrooms value whose numeric coercion is NaN or 0 adds no criterion
\* on that field and raises no error (the handler goes on to paginate), so
\* the predicate is the one of the same request without that parameter.
C20_ZeroOrNaNOmitted ==
    pc # "idle" =>
        /\ CoercesToNothing(req.minPrice) =>
              /\ ~(findArgs.query.price.on /\ findArgs.query.price.gte.on)
              /\ findArgs.query = BuildListingQuery([req EXCEPT !.minPrice = Undefined])
        /\ CoercesToNothing(req.maxPrice) =>
              /\ ~(findArgs.query.price.on /\ findArgs.query.price.lte.on)
              /\ findArgs.query = BuildListingQuery([req EXCEPT !.maxPrice = Undefined])
        /\ CoercesToNothing(req.bedrooms) =>
              /\ ~findArgs.query.bedrooms.on
              /\ findArgs.query = BuildListingQuery([req EXCEPT !.bedrooms = Undefined])
        /\ CoercesToNothing(req.bathrooms) =>
              /\ ~findArgs.query.bathrooms.on
              /\ findArgs.query = BuildListingQuery([req EXCEPT !.bathrooms = Undefined])
        /\ countArgs = findArgs.query
        /\ issued = [read |-> 1, count |-> 1]

C20_Witness ==
    /\ pc = "done"
    /\ req.bedrooms = Str(<<"0">>)
    /\ req.minPrice = Str(<<"a", "b", "c">>)
    /\ req.maxPrice = Str(<<"5", "0", "0", "0", "0", "0">>)
    /\ req.bathrooms = Undefined
    /\ ~findArgs.query.bedrooms.on
    /\ findArgs.query.price.lte.on /\ ~findArgs.query.price.gte.on
    /\ result.kind = "envelope"
    /\ result.data # <<>>

(***************************************************************************)
(* Lead conversion.                                                        *)
(***************************************************************************)
\* the orders in which one conversion request can have written so far
WriteOrders ==
    {<<>>, <<"client">>, <<"client", "viewing">>,
     <<"client", "viewing", "lead">>, <<"viewing">>, <<"viewing", "lead">>}

\* the client request c works with is stored and has the lead's email
ClientPersisted(c) ==
    /\ c.client \in 1..Len(clients)
    /\ clients[c.client].email = c.lead.email

\* the viewing request c created is stored, for its client and the lead's
\* property
ViewingPersisted(c) ==
    /\ c.viewing \in 1..Len(viewings)
    /\ viewings[c.viewing].client = c.client
    /\ viewings[c.viewing].property = c.lead.property

\* C21: a conversion writes in the order client creation (only when no
\* client with the lead's email was found), viewing creation, lead update,
\* and nothing is rolled back: after a failed viewing creation the client
\* it created is still stored and the lead is as it was; after a failed
\* lead update client and viewing are stored and the lead is as it was (not
\* "converted" unless another conversion of it succeeded).
C21_WriteOrderNoRollback ==
    /\ \A p \in Slots :
         LET c == conv[p]
         IN  /\ c.writes \in WriteOrders
             /\ (c.writes # <<>> /\ c.writes[1] = "client") => ClientPersisted(c)
             /\ (c.pc = "failed" /\ c.failedAt = "viewing") =>
                   /\ c.writes \in {<<>>, <<"client">>}
                   /\ c.viewing = 0
                   /\ c.client # 0 /\ ClientPersisted(c)
             /\ (c.pc = "failed" /\ c.failedAt = "lead") =>
                   /\ c.writes \in {<<"client", "viewing">>, <<"viewing">>}
                   /\ ClientPersisted(c)
                   /\ ViewingPersisted(c)
    /\ \A l \in 1..Len(leads) :
         IF succeeded[l] = 0 THEN leads[l] = InitialLeads[l]
         ELSE leads[l].status = "converted"

C21_Witness ==
    /\ conv["r1"].pc = "failed" /\ conv["r1"].failedAt = "lead"
    /\ conv["r1"].writes = <<"client", "viewing">>
    /\ conv["r1"].leadId = 1
    /\ conv["r2"].pc = "failed" /\ conv["r2"].failedAt = "viewing"
    /\ conv["r2"].writes = <<"client">>
    /\ conv["r2"].leadId = 4
    /\ Len(clients) = 2 /\ Len(viewings) = 1
    /\ leads = InitialLeads

\* C24: conversions being the only writers of lead status, every lead with
\* status "converted" has convertedToClient set to a stored client whose
\* email is the lead's email, and a viewing is stored for that client and
\* the lead's property.
C24_ConvertedLeadHasClientAndViewing ==
    \A l \in 1..Len(leads) :
        leads[l].status = "converted" =>
            /\ leads[l].convertedToClient \in 1..Len(clients)
            /\ clients[leads[l].convertedToClient].email = leads[l].email
            /\ \E v \in 1..Len(viewings) :
                  /\ viewings[v].client = leads[l].convertedToClient
                  /\ viewings[v].property = leads[l].property

C24_Witness ==
    /\ leads[1].status = "converted"
    /\ leads[3].status = "converted"
    /\ leads[1].convertedToClient # leads[3].convertedToClient
    /\ clients[leads[3].convertedToClient].email = "bob@example.com"
    /\ Len(viewings) = 2

\* two stored clients have the same email
DuplicateClients ==
    \E i, j \in 1..Len(clients) : i < j /\ clients[i].email = clients[j].email

\* C25: conversions that run one after the other reuse the client of an
\* email, so two clients with the same email exist only after two
\* conversion requests ran concurrently (then they can: both see no client
\* and each creates one).
C25_DuplicatesOnlyWhenConcurrent ==
    /\ DuplicateClients => overlapped
    /\ ~overlapped =>
          \A l, k \in 1..Len(leads) :
              (/\ leads[l].status = "converted"
               /\ leads[k].status = "converted"
               /\ leads[l].email = leads[k].email)
                 => leads[l].convertedToClient = leads[k].convertedToClient

C25_Witness ==
    /\ overlapped
    /\ Len(clients) = 2
    /\ clients[1].email = "ann@example.com"
    /\ clients[2].email = "ann@example.com"
    /\ leads[1].status = "converted"
    /\ leads[2].status = "converted"
    /\ leads[1].convertedToClient # leads[2].convertedToClient

\* the viewings conversions of lead l created, and those among them whose
\* conversion was answered 201
ViewingsFor(l) == {v \in 1..Len(viewings) : viewings[v].lead = l}
AnsweredViewingsFor(l) == {v \in ViewingsFor(l) : viewings[v].answered}

\* C26: the handler does not look at the lead's status: no request for a
\* stored lead is turned away (404 is answered only when no lead has the
\* id), also when the lead is converted already, and every call answered
\* 201 created a viewing of its own, so n successful calls on a lead leave
\* n viewings for it (calls that failed after creating theirs aside).
C26_RepeatedConversionAddsViewing ==
    /\ \A p \in Slots :
          /\ conv[p].status = 404 => conv[p].leadId \notin 1..Len(leads)
          /\ conv[p].status = 201 =>
                /\ conv[p].viewing \in AnsweredViewingsFor(conv[p].leadId)
                /\ \A q \in Slots \ {p} :
                      conv[q].viewing # conv[p].viewing
    /\ \A l \in 1..Len(leads) :
          /\ Cardinality(AnsweredViewingsFor(l)) = succeeded[l]
          /\ (ViewingsFor(l) = AnsweredViewingsFor(l))
                => Cardinality(ViewingsFor(l)) = succeeded[l]

C26_Witness ==
    /\ ~overlapped
    /\ succeeded[1] = 2
    /\ conv["r1"].status = 201 /\ conv["r1"].leadId = 1
    /\ Cardinality(ViewingsFor(1)) = 2
    /\ Len(clients) = 1
    /\ leads[1].status = "converted"

\* the body of request c lacks date or time, or they form no valid instant
Malformed(c) ==
    \/ ~c.date.def \/ c.date.t = ""
    \/ ~c.time.def \/ c.time.t = ""
    \/ c.date.t \notin ValidDates
    \/ c.time.t \notin ValidTimes

\* C27: the handler validates before it reads or writes: a request whose
\* body lacks date or time, or whose date and time form no valid instant,
\* is answered 400 without a single storage operation, whether or not a
\* lead has the id; a well-formed request for an id no lead has is answered
\* 404 after the one lookup; none of them writes a client, viewing or lead.
C27_ValidateBeforeReadOrWrite ==
    \A p \in Slots :
        LET c == conv[p]
        IN  /\ (c.pc # "idle" /\ Malformed(c)) =>
                  /\ c.pc = "done" /\ c.status = 400
                  /\ c.reads = 0 /\ c.writes = <<>>
            /\ c.status = 400 => Malformed(c)
            /\ (c.pc \in {"done", "failed"} /\ ~Malformed(c)
                  /\ c.leadId \notin 1..Len(leads)) =>
                  /\ c.status = 404
                  /\ c.reads = 1 /\ c.writes = <<>>
            /\ c.status = 404 => c.leadId \notin 1..Len(leads)

C27_Witness ==
    /\ conv["r2"].status = 400 /\ conv["r2"].leadId = 5
    /\ conv["r2"].time = Text("25:99")
    /\ conv["r2"].reads = 0
    /\ conv["r1"].status = 404 /\ conv["r1"].leadId = 5
    /\ conv["r1"].reads = 1
    /\ leads = InitialLeads /\ clients = <<>> /\ viewings = <<>>

(***************************************************************************)
(* Property administration                                                 *)
(***************************************************************************)
\* "a number in [-bound, bound]"
NumberWithin(v, bound) ==
    /\ v.t = "number"
    /\ JsGe(v.num, Int2Num(0 - bound))
    /\ JsLe(v.num, Int2Num(bound))

ValidCoordinates(coordinates) ==
    /\ NumberWithin(LatOf(coordinates), MaxLatitude)
    /\ NumberWithin(LngOf(coordinates), MaxLongitude)

\* C22: a createProperty request whose location.coordinates has a latitude
\* that is not a number in [-90, 90] or a longitude that is not a number in
\* [-180, 180] is answered 400 and creates no record; with valid
\* coordinates (and an otherwise complete body, storage permitting) it
\* creates one record and is answered 201.
C22_CoordinatesValidated ==
    (lastCreate.made /\ lastCreate.body.coordinates.form # "none") =>
        IF ValidCoordinates(lastCreate.body.coordinates)
        THEN (lastCreate.body.complete /\ ~lastCreate.storageError) =>
                /\ lastCreate.status = 201
                /\ lastCreate.created = Len(store)
        ELSE /\ lastCreate.status = 400
             /\ lastCreate.created = 0

\* a latitude of null passed the check and was stored as 0
C22_NullLatitudeStored ==
    /\ lastCreate.made
    /\ LatOf(lastCreate.body.coordinates) = JsNull
    /\ lastCreate.status = 201
    /\ store[lastCreate.created].coordinates[2] = Int2Num(0)

\* a body without a latitude was answered 500
C22_MissingLatitude500 ==
    /\ lastCreate.made
    /\ lastCreate.body.coordinates.form # "none"
    /\ lastCreate.body.complete
    /\ LatOf(lastCreate.body.coordinates) = JsUndefined
    /\ lastCreate.status = 500
    /\ ~lastCreate.storageError

\* the ids of the properties in the page a read returned
PageIds(op) == {op.data[i] : i \in 1..Len(op.data)}

\* what archiveProperty(id) (flag TRUE) or unarchiveProperty(id) (flag
\* FALSE) must have done in a step
ArchiveOutcome(id, flag) ==
    IF HasId(store, id)
    THEN /\ writeStatus' = 200
         /\ Len(store') = Len(store)
         /\ store'[id].archived = flag
         /\ \A i \in 1..Len(store) :
               i # id => store'[i] = store[i]
         /\ store[id].archived = flag => store' = store
    ELSE /\ writeStatus' = 404
         /\ store' = store

C28_OtherArchivedValuesUnfiltered ==
    (pc # "idle" /\ req.archived \in OtherArchivedInputs) =>
        /\ ~findArgs.query.archived.on
        /\ ~countArgs.archived.on
        /\ findArgs.query = EmptyQuery
        /\ result.kind = "envelope" =>
              /\ {result.data[i] : i \in 1..Len(result.data)}
                    = 1..Len(readSaw)
              /\ result.pagination.total = Len(countSaw)

C28_Witness ==
    /\ pc = "done"
    /\ req.archived = Text("yes")
    /\ result.kind = "envelope"
    /\ \E i \in 1..Len(result.data) : readSaw[result.data[i]].archived
    /\ \E i \in 1..Len(result.data) : ~readSaw[result.data[i]].archived

(***************************************************************************)
(* The page of a collection that stays as it is during the call.           *)
(***************************************************************************)
\* an integer >= 1
WholeFrom1(x) == x.k = "fin" /\ x.d = 1 /\ x.n >= 1

\* C29: when page read and count of a paginate call with whole page >= 1
\* and limit >= 1 found the same collection, the envelope has
\* data.length = min(limit, max(0, total - (page - 1) * limit)), hasNext is
\* true exactly when page * limit < total, and a page beyond totalPages has
\* empty data and hasNext false.
C29_PageLengthAndHasNext ==
    (/\ result.kind = "envelope"
     /\ WholeFrom1(params.page) /\ WholeFrom1(params.limit)
     /\ readSaw = countSaw) =>
        LET page == params.page.n
            limit == params.limit.n
            m == result.pagination
        IN  /\ Len(result.data) = Min(limit, Max(0, m.total - (page - 1) * limit))
            /\ m.hasNext = (page * limit < m.total)
            /\ JsGt(params.page, m.totalPages) =>
                  /\ result.data = <<>>
                  /\ ~m.hasNext

\* page 3 of 5 over 11 matching records is the last one and holds one
\* record; page 3 of 10 over the same records is beyond the last page
C29_Witness ==
    /\ result.kind = "envelope"
    /\ readSaw = countSaw
    /\ result.pagination.total = 11
    /\ params.page = Int2Num(3)
    /\ params.limit = Int2Num(5)
    /\ Len(result.data) = 1
    /\ ~result.pagination.hasNext

(***************************************************************************)
(* The object build() returns.                                             *)
(***************************************************************************)
\* C30: build() returns the accumulator itself: the object a build()
\* returned is at every later moment what the accumulator is (add* calls
\* made after the build() show in it, and what the caller assigned to its
\* archived key is in the accumulator), and the next build() returns the
\* archived value the caller assigned on the previous one, or the value the
\* previous one already had when the caller assigned none.
C30_BuildReturnsAccumulator ==
    /\ lastBuild.done =>
          /\ ReturnedObject = builder.query
          /\ ReturnedObject =
                ApplyCalls([lastBuild.value EXCEPT !.archived =
                               IF lastBuild.assigned.on THEN lastBuild.assigned
                               ELSE lastBuild.value.archived],
                           builder.options,
                           SubSeq(calls, lastBuild.ncalls + 1, Len(calls)))
          /\ lastBuild.assigned.on =>
                builder.query.archived = lastBuild.assigned
    /\ (prevBuild.done /\ lastBuild.done) =>
          lastBuild.value.archived =
             IF prevBuild.assigned.on THEN prevBuild.assigned
             ELSE prevBuild.value.archived

\* the caller set archived on the first build(), added a city filter, and
\* built again: the object of the first build() had no archived and no city
\* when it was returned, the second build() has both, and so has the object
\* now
C30_Witness ==
    /\ prevBuild.done /\ prevBuild.ncalls = 1
    /\ ~prevBuild.value.archived.on /\ ~prevBuild.value.city.on
    /\ prevBuild.assigned = [on |-> TRUE, v |-> FALSE]
    /\ lastBuild.done /\ lastBuild.ncalls = 2
    /\ calls = <<TypeCall(Text("sale")), CityCall(Text("London"))>>
    /\ lastBuild.value.archived = [on |-> TRUE, v |-> FALSE]
    /\ lastBuild.value.city = [on |-> TRUE, v |-> "London"]
    /\ ReturnedObject = lastBuild.value

==============================================================================
